---------------------------- MODULE Spec2Model ----------------------------
(***************************************************************************)
(* CloudSupply: cart ledger, order engine and stock ledger.                *)
(*                                                                         *)
(* The tables of src/bot/core/db/models.py are sets of rows (records).     *)
(* The engine is SQLite (src/core/db/database.py:17): an integer primary   *)
(* key is the rowid, so a new row gets max(id) + 1 and the id of a deleted *)
(* last row is given out again; foreign keys are not enforced and carry no *)
(* ON DELETE rule, so a bulk DELETE statement removes only the rows it     *)
(* names; SELECT ... FOR UPDATE takes no lock.                             *)
(* Prices are whole numbers of euros.                                      *)
(***************************************************************************)
EXTENDS Integers, Sequences, FiniteSets, TLC

VARIABLES products, cart, orders, order_items, ret, sess,
          settings, enabled, users, reply, user_data, backup, models

\* the bot_settings and users tables, the argument of the latest
\* set_maintenance_mode call, the answer the bot gave last, the
\* context.user_data of each chat, the latest backup copy of the database
\* file and the models table
gate == <<settings, enabled, users, reply, user_data, backup, models>>

vars == <<products, cart, orders, order_items, ret, sess, gate>>

(* ------------------------------ bounds -------------------------------- *)

\* stock of each product of the catalogue the orders run against
InitStock == 2
\* largest quantity one add_to_cart call asks for
MaxQty == 2
\* largest quantity a cart row is let grow to
MaxCartQty == 2
\* largest id, and so the number of rows, the orders, order_items and cart
\* tables are let reach
MaxOrders == 2
MaxItems == 2
MaxCartRows == 3
\* largest quantity a line item is let grow to
MaxItemQty == 2
\* largest stock a restock (delete_order, admin edit) is let reach
StockCap == 2
\* the products there can be
MaxProducts == 3
\* the add_to_cart calls one session makes
MaxCalls == 2

\* confirm_order: delivery_fee = 5.0 if delivery_method == "delivery" else 0.0
DeliveryFee == 5

Users == {1, 2}
\* the user who orders; user 2 holds a cart row and stays away
Customers == {1}
Prices == {1, 2}
\* the catalogue the orders run against: product 1 (X) and product 2 (Y)
Catalogue == {1, 2}
Statuses == {"processing", "completed"}
DeliveryMethods == {"pickup", "delivery"}

(* ------------------------------ helpers ------------------------------- *)

MaxOf(S) == CHOOSE x \in S : \A y \in S : y <= x

MinOf(S) == CHOOSE x \in S : \A y \in S : x <= y

RECURSIVE SumQty(_)
SumQty(rows) ==
    IF rows = {} THEN 0
    ELSE LET r == CHOOSE x \in rows : TRUE
         IN  r.quantity + SumQty(rows \ {r})

\* ORDER BY id: the rows of a table as a sequence, oldest first
RECURSIVE SortById(_)
SortById(rows) ==
    IF rows = {} THEN << >>
    ELSE LET r == CHOOSE x \in rows : \A y \in rows : x.id <= y.id
         IN  <<r>> \o SortById(rows \ {r})

\* the id SQLite gives the next row of a table: one more than the largest
\* rowid in use, 1 in an empty table
NextId(rows) == IF rows = {} THEN 1 ELSE MaxOf({r.id : r \in rows}) + 1

NoneRet == [kind |-> "none", val |-> 0]
BoolRet(b) == [kind |-> "bool", val |-> IF b THEN 1 ELSE 0]
RowRet(kind, id) == [kind |-> kind, val |-> id]

(* ------------------------------ catalogue ----------------------------- *)

\* "product is not None" for the row get_product_by_id selects
HasProduct(prods, product_id) == product_id \in DOMAIN prods

get_product_by_id(prods, product_id) == prods[product_id]

update_stock_unclamped(prods, product_id, quantity_change) ==
    IF HasProduct(prods, product_id)
    THEN [prods EXCEPT ![product_id].stock_quantity = @ + quantity_change]
    ELSE prods

update_stock(prods, product_id, quantity_change) ==
    IF HasProduct(prods, product_id)
    THEN LET new_quantity == prods[product_id].stock_quantity + quantity_change
         IN  [prods EXCEPT ![product_id].stock_quantity =
                               IF new_quantity > 0 THEN new_quantity ELSE 0]
    ELSE prods

(* -------------------------------- cart -------------------------------- *)

RowsOf(c, u, p) == {r \in c : r.user_id = u /\ r.product_id = p}

UserCart(c, user_id) == {r \in c : r.user_id = user_id}

merge_duplicate_cart_items_unsummed(c, user_id) ==
    LET cart_items == UserCart(c, user_id)
        group(product_id) == {r \in cart_items : r.product_id = product_id}
        first_items == {r \in cart_items :
                          r.id = MinOf({s.id : s \in group(r.product_id)})}
    IN  IF Cardinality(cart_items) <= 1 THEN c
        ELSE (c \ cart_items) \cup
             first_items

merge_duplicate_cart_items(c, user_id) ==
    LET cart_items == UserCart(c, user_id)
        group(product_id) == {r \in cart_items : r.product_id = product_id}
        first_items == {r \in cart_items :
                          r.id = MinOf({s.id : s \in group(r.product_id)})}
    IN  IF Cardinality(cart_items) <= 1 THEN c
        ELSE (c \ cart_items) \cup
             {[r EXCEPT !.quantity = SumQty(group(r.product_id))] : r \in first_items}

get_user_cart(c, user_id) == SortById(UserCart(merge_duplicate_cart_items(c, user_id), user_id))

clear_user_cart_first_row(c, user_id) ==
    IF UserCart(c, user_id) = {} THEN c
    ELSE c \ {CHOOSE r \in UserCart(c, user_id) :
                  \A t \in UserCart(c, user_id) : r.id <= t.id}

clear_user_cart(c, user_id) ==
    c \ UserCart(c, user_id)

add_to_cart_always_insert(c, user_id, product_id, quantity) ==
    c \cup {[id |-> NextId(c), user_id |-> user_id,
              product_id |-> product_id, quantity |-> quantity]}

\* the cart table after add_to_cart
add_to_cart(c, user_id, product_id, quantity) ==
    LET merged == merge_duplicate_cart_items(c, user_id)
        found == {r \in merged : r.user_id = user_id /\ r.product_id = product_id}
    IN  IF found # {}
        THEN LET cart_item == CHOOSE r \in found : TRUE
             IN  (merged \ {cart_item}) \cup
                 {[cart_item EXCEPT !.quantity = @ + quantity]}
        ELSE merged \cup {[id |-> NextId(merged), user_id |-> user_id,
                           product_id |-> product_id, quantity |-> quantity]}

update_cart_item_quantity_set_only(c, cart_id, quantity) ==
    {IF r.id = cart_id THEN [r EXCEPT !.quantity = quantity] ELSE r : r \in c}

update_cart_item_quantity(c, cart_id, quantity) ==
    IF quantity <= 0
    THEN {r \in c : r.id # cart_id}
    ELSE {IF r.id = cart_id THEN [r EXCEPT !.quantity = quantity] ELSE r : r \in c}

remove_from_cart(c, cart_id) == {r \in c : r.id # cart_id}

(* ------------------------------- orders ------------------------------- *)

SeqToSet(s) == {s[k] : k \in 1..Len(s)}

\* the contact_info confirm_order builds: "@username", or "ID: n" for a user
\* without a username
ContactInfo(u, has_username) == IF has_username THEN <<"@", u>> ELSE <<"ID", u>>

\* the user's orders in status processing, newest first (an order created
\* later has the larger id: a new id exceeds every id in the table)
processing_orders_none(ords, user_id) == << >>

processing_orders(ords, user_id) ==
    LET asc == SortById({o \in ords : o.user_id = user_id /\ o.status = "processing"})
    IN  [k \in 1..Len(asc) |-> asc[Len(asc) + 1 - k]]

Accepted_whenever_listed(prods, cart_item) ==
    HasProduct(prods, cart_item.product_id)

Accepted_without_stock_test(prods, cart_item) ==
    /\ HasProduct(prods, cart_item.product_id)
    /\ get_product_by_id(prods, cart_item.product_id).is_available

\* the test both loops of create_order make on a cart entry
Accepted(prods, cart_item) ==
    /\ HasProduct(prods, cart_item.product_id)
    /\ get_product_by_id(prods, cart_item.product_id).is_available
    /\ get_product_by_id(prods, cart_item.product_id).stock_quantity >= cart_item.quantity

\* one pass of the amend loop; acc = [products, order_items, total]
amend_item_overwrite_price(acc, order_id, cart_item) ==
    IF ~Accepted(acc.products, cart_item) THEN acc
    ELSE
    LET product == get_product_by_id(acc.products, cart_item.product_id)
        existing_items == SortById({i \in acc.order_items :
                                      /\ i.order_id = order_id
                                      /\ i.product_id = cart_item.product_id})
    IN  [products |-> update_stock(acc.products, cart_item.product_id, -cart_item.quantity),
         order_items |->
            IF existing_items # << >>
            THEN (acc.order_items \ SeqToSet(existing_items)) \cup
                 {[existing_items[1] EXCEPT !.quantity = @ + cart_item.quantity,
                                            !.price_at_order = product.price]}
            ELSE acc.order_items \cup
                 {[id |-> NextId(acc.order_items), order_id |-> order_id,
                   product_id |-> cart_item.product_id,
                   quantity |-> cart_item.quantity,
                   price_at_order |-> product.price]},
         total |-> acc.total + product.price * cart_item.quantity]

amend_item_keeps_stock(acc, order_id, cart_item) ==
    IF ~Accepted(acc.products, cart_item) THEN acc
    ELSE
    LET product == get_product_by_id(acc.products, cart_item.product_id)
        \* no ORDER BY: SQLite scans the table in rowid order
        existing_items == SortById({i \in acc.order_items :
                                      /\ i.order_id = order_id
                                      /\ i.product_id = cart_item.product_id
                                      /\ i.price_at_order = product.price})
    IN  [products |-> acc.products,
         order_items |->
            IF existing_items # << >>
            THEN (acc.order_items \ SeqToSet(existing_items)) \cup
                 {[existing_items[1] EXCEPT !.quantity = @ + cart_item.quantity]}
            ELSE acc.order_items \cup
                 {[id |-> NextId(acc.order_items), order_id |-> order_id,
                   product_id |-> cart_item.product_id,
                   quantity |-> cart_item.quantity,
                   price_at_order |-> product.price]},
         total |-> acc.total + product.price * cart_item.quantity]

amend_item(acc, order_id, cart_item) ==
    IF ~Accepted(acc.products, cart_item) THEN acc
    ELSE
    LET product == get_product_by_id(acc.products, cart_item.product_id)
        \* no ORDER BY: SQLite scans the table in rowid order
        existing_items == SortById({i \in acc.order_items :
                                      /\ i.order_id = order_id
                                      /\ i.product_id = cart_item.product_id
                                      /\ i.price_at_order = product.price})
    IN  [products |-> update_stock(acc.products, cart_item.product_id, -cart_item.quantity),
         order_items |->
            IF existing_items # << >>
            THEN (acc.order_items \ SeqToSet(existing_items)) \cup
                 {[existing_items[1] EXCEPT !.quantity = @ + cart_item.quantity]}
            ELSE acc.order_items \cup
                 {[id |-> NextId(acc.order_items), order_id |-> order_id,
                   product_id |-> cart_item.product_id,
                   quantity |-> cart_item.quantity,
                   price_at_order |-> product.price]},
         total |-> acc.total + product.price * cart_item.quantity]

RECURSIVE amend_loop(_, _, _)
amend_loop(cart_items, order_id, acc) ==
    IF cart_items = << >> THEN acc
    ELSE amend_loop(Tail(cart_items), order_id, amend_item(acc, order_id, Head(cart_items)))

create_item_keeps_stock(acc, cart_item) ==
    IF ~Accepted(acc.products, cart_item) THEN acc
    ELSE
    LET product == get_product_by_id(acc.products, cart_item.product_id)
    IN  [products |-> acc.products,
         order_items_list |-> Append(acc.order_items_list,
                                     [product_id |-> cart_item.product_id,
                                      quantity |-> cart_item.quantity,
                                      price_at_order |-> product.price]),
         total |-> acc.total + product.price * cart_item.quantity]

\* one pass of the create loop; acc = [products, order_items_list, total]
create_item(acc, cart_item) ==
    IF ~Accepted(acc.products, cart_item) THEN acc
    ELSE
    LET product == get_product_by_id(acc.products, cart_item.product_id)
    IN  [products |-> update_stock(acc.products, cart_item.product_id, -cart_item.quantity),
         order_items_list |-> Append(acc.order_items_list,
                                     [product_id |-> cart_item.product_id,
                                      quantity |-> cart_item.quantity,
                                      price_at_order |-> product.price]),
         total |-> acc.total + product.price * cart_item.quantity]

RECURSIVE create_loop(_, _)
create_loop(cart_items, acc) ==
    IF cart_items = << >> THEN acc
    ELSE create_loop(Tail(cart_items), create_item(acc, Head(cart_items)))

\* the rows the create path inserts for its list, ids in list order
RECURSIVE insert_order_items(_, _, _)
insert_order_items(items, order_id, list) ==
    IF list = << >> THEN items
    ELSE insert_order_items(
            items \cup {[id |-> NextId(items), order_id |-> order_id,
                         product_id |-> Head(list).product_id,
                         quantity |-> Head(list).quantity,
                         price_at_order |-> Head(list).price_at_order]},
            order_id, Tail(list))

create_order_rewrites_header(db, user_id, cart_items, contact_info, delivery_method, delivery_fee) ==
    LET found == processing_orders(db.orders, user_id)
    IN  IF found # << >>
        THEN LET existing_order == found[1]
                 acc == amend_loop(cart_items, existing_order.id,
                                   [products |-> db.products,
                                    order_items |-> db.order_items,
                                    total |-> 0])
             IN  [products |-> acc.products,
                  order_items |-> acc.order_items,
                  orders |-> (db.orders \ {existing_order}) \cup
                             {[existing_order EXCEPT !.total_price = @ + acc.total,
                                                     !.contact_info = contact_info,
                                                     !.delivery_method = delivery_method,
                                                     !.delivery_fee = delivery_fee]},
                  cart |-> clear_user_cart(db.cart, user_id),
                  ret |-> RowRet("order", existing_order.id)]
        ELSE LET acc == create_loop(cart_items,
                                    [products |-> db.products,
                                     order_items_list |-> << >>,
                                     total |-> 0])
                 order == [id |-> NextId(db.orders), user_id |-> user_id,
                           total_price |-> acc.total + delivery_fee,
                           status |-> "processing",
                           contact_info |-> contact_info,
                           delivery_method |-> delivery_method,
                           delivery_fee |-> delivery_fee]
             IN  [products |-> acc.products,
                  order_items |-> insert_order_items(db.order_items, order.id,
                                                     acc.order_items_list),
                  orders |-> db.orders \cup {order},
                  cart |-> clear_user_cart(db.cart, user_id),
                  ret |-> RowRet("order", order.id)]

\* db = [products, cart, orders, order_items]; the result adds ret, the id
\* of the order returned
create_order(db, user_id, cart_items, contact_info, delivery_method, delivery_fee) ==
    LET found == processing_orders(db.orders, user_id)
    IN  IF found # << >>
        THEN LET existing_order == found[1]
                 acc == amend_loop(cart_items, existing_order.id,
                                   [products |-> db.products,
                                    order_items |-> db.order_items,
                                    total |-> 0])
             IN  [products |-> acc.products,
                  order_items |-> acc.order_items,
                  orders |-> (db.orders \ {existing_order}) \cup
                             {[existing_order EXCEPT !.total_price = @ + acc.total]},
                  cart |-> clear_user_cart(db.cart, user_id),
                  ret |-> RowRet("order", existing_order.id)]
        ELSE LET acc == create_loop(cart_items,
                                    [products |-> db.products,
                                     order_items_list |-> << >>,
                                     total |-> 0])
                 order == [id |-> NextId(db.orders), user_id |-> user_id,
                           total_price |-> acc.total + delivery_fee,
                           status |-> "processing",
                           contact_info |-> contact_info,
                           delivery_method |-> delivery_method,
                           delivery_fee |-> delivery_fee]
             IN  [products |-> acc.products,
                  order_items |-> insert_order_items(db.order_items, order.id,
                                                     acc.order_items_list),
                  orders |-> db.orders \cup {order},
                  cart |-> clear_user_cart(db.cart, user_id),
                  ret |-> RowRet("order", order.id)]

update_order_status(ords, order_id, status) ==
    {IF o.id = order_id THEN [o EXCEPT !.status = status] ELSE o : o \in ords}

restock_first_only(prods, items) ==
    IF items = << >> THEN prods
    ELSE update_stock(prods, Head(items).product_id, Head(items).quantity)

\* stock after the restock loop of delete_order over the order's rows
RECURSIVE restock(_, _)
restock(prods, items) ==
    IF items = << >> THEN prods
    ELSE restock(update_stock(prods, Head(items).product_id, Head(items).quantity),
                 Tail(items))

OrderExists(ords, order_id) == \E o \in ords : o.id = order_id

ItemsOf(items, order_id) == {i \in items : i.order_id = order_id}

\* DELETE FROM orders WHERE id = :order_id is a bulk statement: the
\* relationship's cascade is not run for it and the line items stay
delete_order(db, order_id) ==
    IF ~OrderExists(db.orders, order_id)
    THEN [products |-> db.products, orders |-> db.orders,
          order_items |-> db.order_items, ret |-> BoolRet(FALSE)]
    ELSE [products |-> restock(db.products, SortById(ItemsOf(db.order_items, order_id))),
          orders |-> {o \in db.orders : o.id # order_id},
          order_items |-> db.order_items,
          ret |-> BoolRet(TRUE)]

merge_duplicate_order_items_by_product(items, order_id) ==
    LET order_items_ == ItemsOf(items, order_id)
        group(i) == {j \in order_items_ : j.product_id = i.product_id}
        first_items == {i \in order_items_ : i.id = MinOf({j.id : j \in group(i)})}
    IN  (items \ order_items_) \cup
        {[i EXCEPT !.quantity = SumQty(group(i))] : i \in first_items}

\* the line items of one order after its duplicates are merged: per
\* (product_id, price_at_order) the first row carries the sum
merge_duplicate_order_items(items, order_id) ==
    LET order_items_ == ItemsOf(items, order_id)
        group(i) == {j \in order_items_ : /\ j.product_id = i.product_id
                                          /\ j.price_at_order = i.price_at_order}
        first_items == {i \in order_items_ : i.id = MinOf({j.id : j \in group(i)})}
    IN  (items \ order_items_) \cup
        {[i EXCEPT !.quantity = SumQty(group(i))] : i \in first_items}

RECURSIVE SumTotal(_)
SumTotal(rows) ==
    IF rows = {} THEN 0
    ELSE LET r == CHOOSE x \in rows : TRUE
         IN  r.quantity * r.price_at_order + SumTotal(rows \ {r})

Db == [products |-> products, cart |-> cart, orders |-> orders,
       order_items |-> order_items]

(* ------------------------------- state -------------------------------- *)

\* a flavour of model 1
Product(price, stock_quantity) ==
    [price |-> price, stock_quantity |-> stock_quantity, is_available |-> TRUE,
     model_id |-> 1]

\* context.user_data after clear()
NoUserData ==
    [state |-> "none", product_id |-> 0, available_slots |-> 0,
     product_stock |-> 0, reset_db_confirm |-> FALSE]

\* the people who write to the bot: a customer, the admin (ADMIN_USERNAME)
\* and the support account (SUPPORT_USERNAME)
Actors == {1, 2, 3}
Admins == {2, 3}

\* no setting written, nobody banned, nothing answered yet, no conversation
\* under way, no backup made, two models
InitGate ==
    /\ settings = {}
    /\ enabled = << >>
    /\ users = [u \in Actors |-> [is_banned |-> FALSE]]
    /\ reply = "none"
    /\ user_data = [u \in Actors |-> NoUserData]
    /\ backup = << >>
    /\ models = {1, 2}

\* a shop in business: the admin has created products 1 (X, 2 euros) and
\* 2 (Y, 1 euro), user 2 has one unit of X in the cart
InitShop(stock1, stock2) ==
    /\ products = (1 :> Product(2, stock1)) @@ (2 :> Product(1, stock2))
    /\ cart = {[id |-> 1, user_id |-> 2, product_id |-> 1, quantity |-> 1]}
    /\ orders = {}
    /\ order_items = {}
    /\ ret = NoneRet
    /\ sess = << >>
    /\ InitGate

Init == InitShop(InitStock, InitStock)

(* ------------------------------ handlers ------------------------------ *)

CartQty(c, user_id, product_id) ==
    SumQty({r \in c : r.user_id = user_id /\ r.product_id = product_id})

\* handle_message in state awaiting_product_quantity, the quantity accepted
AddToCart(u, p, q) ==
    /\ HasProduct(products, p)
    /\ CartQty(cart, u, p) + q <= MaxCartQty
    /\ \A r \in add_to_cart(cart, u, p, q) : r.id <= MaxCartRows
    /\ cart' = add_to_cart(cart, u, p, q)
    /\ ret' = RowRet("cart", (CHOOSE r \in cart' : r.user_id = u /\ r.product_id = p).id)
    /\ UNCHANGED <<products, orders, order_items, sess, gate>>

\* the remove button of the cart
RemoveFromCart(cart_id) ==
    /\ cart' = remove_from_cart(cart, cart_id)
    /\ ret' = NoneRet
    /\ UNCHANGED <<products, orders, order_items, sess, gate>>

\* the clear button of the cart
ClearCart(u) ==
    /\ cart' = clear_user_cart(cart, u)
    /\ ret' = NoneRet
    /\ UNCHANGED <<products, orders, order_items, sess, gate>>

\* confirm_order: an empty cart is answered and nothing is created
ConfirmOrder(u, delivery_method) ==
    LET cart_items == get_user_cart(cart, u)
        delivery_fee == IF delivery_method = "delivery" THEN DeliveryFee ELSE 0
        after == create_order([Db EXCEPT !.cart = merge_duplicate_cart_items(cart, u)],
                              u, cart_items, ContactInfo(u, TRUE), delivery_method,
                              delivery_fee)
    IN  /\ cart_items # << >>
        /\ \A o \in after.orders : o.id <= MaxOrders
        /\ \A i \in after.order_items : i.id <= MaxItems
        /\ \A i \in after.order_items : i.quantity <= MaxItemQty
        /\ products' = after.products
        /\ cart' = after.cart
        /\ orders' = after.orders
        /\ order_items' = after.order_items
        /\ ret' = after.ret
        /\ UNCHANGED <<sess, gate>>

\* set_order_status: the two status buttons of get_order_status_kb
SetOrderStatus(order_id, new_status) ==
    /\ orders' = update_order_status(orders, order_id, new_status)
    /\ ret' = NoneRet
    /\ UNCHANGED <<products, cart, order_items, sess, gate>>

\* delete_order_confirm
DeleteOrder(order_id) ==
    LET after == delete_order(Db, order_id)
    IN  /\ \A p \in DOMAIN after.products : after.products[p].stock_quantity <= StockCap
        /\ products' = after.products
        /\ orders' = after.orders
        /\ order_items' = after.order_items
        /\ ret' = after.ret
        /\ UNCHANGED <<cart, sess, gate>>

\* handle_admin_message in state awaiting_flavor_price_edit: a price <= 0
\* is answered with a re-prompt
AdminEditPrice(product_id, new_price) ==
    /\ products' = IF new_price <= 0 \/ ~HasProduct(products, product_id)
                   THEN products
                   ELSE [products EXCEPT ![product_id].price = new_price]
    /\ ret' = NoneRet
    /\ UNCHANGED <<cart, orders, order_items, sess, gate>>

RECURSIVE merge_all(_, _)
merge_all(items, order_seq) ==
    IF order_seq = << >> THEN items
    ELSE merge_all(merge_duplicate_order_items(items, Head(order_seq).id), Tail(order_seq))

\* cmd_fix_orders: merges the duplicates of every order and recomputes
\* its total from its line items
FixOrders ==
    LET fixed == merge_all(order_items, SortById(orders))
    IN  /\ \A i \in fixed : i.quantity <= MaxItemQty
        /\ order_items' = fixed
        /\ orders' = {[o EXCEPT !.total_price =
                          SumTotal(ItemsOf(fixed, o.id)) + o.delivery_fee] : o \in orders}
        /\ ret' = NoneRet
        /\ UNCHANGED <<products, cart, sess, gate>>

\* a call of crud.merge_duplicate_order_items
MergeOrderItems(order_id) ==
    /\ \A i \in merge_duplicate_order_items(order_items, order_id) : i.quantity <= MaxItemQty
    /\ order_items' = merge_duplicate_order_items(order_items, order_id)
    /\ ret' = NoneRet
    /\ UNCHANGED <<products, cart, orders, sess, gate>>

\* one more than the orders there can be: an id no order has
OrderIds == 1..(MaxOrders + 1)
CartIds == 1..(MaxCartRows + 1)

(* --------------------------- specifications --------------------------- *)

\* the order engine: one customer, the admin's order buttons
Next ==
    \/ \E u \in Customers, p \in Catalogue, q \in 1..MaxQty : AddToCart(u, p, q)
    \/ \E u \in Customers, m \in DeliveryMethods : ConfirmOrder(u, m)
    \/ \E o \in OrderIds, s \in Statuses : SetOrderStatus(o, s)
    \/ \E o \in OrderIds : DeleteOrder(o)

Spec == Init /\ [][Next]_vars

\* the cart ledger alone, every user
NextCart ==
    \/ \E u \in Users, p \in Catalogue, q \in 1..MaxQty : AddToCart(u, p, q)
    \/ \E id \in CartIds : RemoveFromCart(id)
    \/ \E u \in Users : ClearCart(u)

SpecCart == Init /\ [][NextCart]_vars

\* the order engine with the admin's price edit and the repairs, the
\* customer buying product 1 for pickup
NextPrice ==
    \/ \E q \in 1..MaxQty : AddToCart(1, 1, q)
    \/ ConfirmOrder(1, "pickup")
    \/ \E o \in OrderIds, s \in Statuses : SetOrderStatus(o, s)
    \/ \E o \in OrderIds : DeleteOrder(o)
    \/ \E n \in Prices \cup {0} : AdminEditPrice(1, n)
    \/ FixOrders
    \/ \E o \in OrderIds : MergeOrderItems(o)

SpecPrice == Init /\ [][NextPrice]_vars

(* ------------------------------ catalogue ----------------------------- *)

\* what int(update.message.text.strip()) makes of the admin's message: a
\* number, or ValueError
StockTexts ==
    {[numeric |-> TRUE, val |-> n] : n \in (-1)..StockCap}
        \cup {[numeric |-> FALSE, val |-> 0]}

StockDeltas == (-(StockCap + 1))..StockCap

ProductIds == 1..MaxProducts

create_product(prods, price, stock_quantity) ==
    prods @@ (MaxOf(DOMAIN prods \cup {0}) + 1 :> Product(price, stock_quantity))

\* handle_admin_message in state awaiting_flavor_stock_edit
AdminEditStock(product_id, text) ==
    /\ products' = IF ~text.numeric \/ text.val < 0 \/ ~HasProduct(products, product_id)
                   THEN products
                   ELSE [products EXCEPT ![product_id].stock_quantity = text.val]
    /\ ret' = NoneRet
    /\ UNCHANGED <<cart, orders, order_items, sess, gate>>

\* handle_admin_message in state awaiting_product_stock, the price entered
\* in the step before
AdminCreateProduct(price, text) ==
    /\ Cardinality(DOMAIN products) < MaxProducts
    /\ products' = IF ~text.numeric \/ text.val < 0
                   THEN products
                   ELSE create_product(products, price, text.val)
    /\ ret' = NoneRet
    /\ UNCHANGED <<cart, orders, order_items, sess, gate>>

\* a call of crud.update_stock
UpdateStock(product_id, quantity_change) ==
    /\ \A p \in DOMAIN products :
          update_stock(products, product_id, quantity_change)[p].stock_quantity <= StockCap
    /\ products' = update_stock(products, product_id, quantity_change)
    /\ ret' = NoneRet
    /\ UNCHANGED <<cart, orders, order_items, sess, gate>>

\* the stock ledger: the customer buying product 1 for pickup, the admin
\* deleting orders, editing stock and creating products
NextCatalog ==
    \/ \E q \in 1..MaxQty : AddToCart(1, 1, q)
    \/ ConfirmOrder(1, "pickup")
    \/ \E o \in OrderIds : DeleteOrder(o)
    \/ \E p \in ProductIds, t \in StockTexts : AdminEditStock(p, t)
    \/ \E n \in Prices, t \in StockTexts : AdminCreateProduct(n, t)
    \/ \E p \in ProductIds, d \in StockDeltas : UpdateStock(p, d)

SpecCatalog == Init /\ [][NextCatalog]_vars

(* ------------------- add_to_cart, statement by statement -------------- *)

\* Two sessions run add_to_cart, each on its own connection to the SQLite
\* file.  A SELECT takes no lock that outlives it (with_for_update renders
\* nothing on SQLite), a commit writes the session's pending rows at once.
\* A session keeps the rows it has read in its identity map (loaded): a
\* later SELECT hands back the row object it holds, with the quantity read
\* first (expire_on_commit=False, no populate_existing).
Sessions == {"a", "b"}

IdleSession ==
    [pc |-> "idle", user_id |-> 0, product_id |-> 0, quantity |-> 0,
     loaded |-> {}, dirty |-> {}, deleted |-> {}, cart_item |-> 0,
     calls |-> 0, added |-> 0]

InitConc ==
    /\ products = (1 :> Product(2, InitStock)) @@ (2 :> Product(1, InitStock))
    /\ cart = {[id |-> 1, user_id |-> 2, product_id |-> 1, quantity |-> 1]}
    /\ orders = {}
    /\ order_items = {}
    /\ ret = NoneRet
    /\ sess = [s \in Sessions |-> IdleSession]
    /\ InitGate

\* the handler opens a session and calls add_to_cart
CallAddToCart(s, u, p, q) ==
    /\ sess[s].pc = "idle"
    /\ sess[s].calls < MaxCalls
    /\ sess' = [sess EXCEPT ![s] = [@ EXCEPT !.pc = "merge", !.user_id = u,
                                             !.product_id = p, !.quantity = q,
                                             !.loaded = {}, !.dirty = {},
                                             !.deleted = {}, !.cart_item = 0]]
    /\ UNCHANGED <<products, cart, orders, order_items, ret, gate>>

\* merge_duplicate_cart_items up to its commit: the SELECT of the user's
\* rows and the changes made to the objects
MergeSelect(s) ==
    LET me == sess[s]
        cart_items == UserCart(cart, me.user_id)
        group(product_id) == {r \in cart_items : r.product_id = product_id}
        first_items == {r \in cart_items :
                          /\ Cardinality(group(r.product_id)) > 1
                          /\ r.id = MinOf({t.id : t \in group(r.product_id)})}
        rest == {r \in cart_items :
                          /\ Cardinality(group(r.product_id)) > 1
                          /\ r.id # MinOf({t.id : t \in group(r.product_id)})}
        has_changes == Cardinality(cart_items) > 1 /\ first_items # {}
    IN  /\ me.pc = "merge"
        /\ sess' = [sess EXCEPT ![s] =
              IF has_changes
              THEN [me EXCEPT !.pc = "merge_commit",
                              !.loaded = cart_items,
                              !.dirty = {[r EXCEPT !.quantity = SumQty(group(r.product_id))]
                                            : r \in first_items},
                              !.deleted = {r.id : r \in rest}]
              ELSE [me EXCEPT !.pc = "select", !.loaded = cart_items]]
        /\ UNCHANGED <<products, cart, orders, order_items, ret, gate>>

\* the commit of merge_duplicate_cart_items: UPDATE of the first rows, then
\* DELETE of the others, by primary key; an UPDATE that matches no row
\* raises StaleDataError and the call ends with nothing written
MergeCommit(s) ==
    LET me == sess[s]
        ids == {r.id : r \in cart}
        stale == \E d \in me.dirty : d.id \notin ids
        written == {IF \E d \in me.dirty : d.id = r.id
                    THEN [r EXCEPT !.quantity = (CHOOSE d \in me.dirty : d.id = r.id).quantity]
                    ELSE r : r \in {t \in cart : t.id \notin me.deleted}}
    IN  /\ me.pc = "merge_commit"
        /\ cart' = IF stale THEN cart ELSE written
        /\ sess' = [sess EXCEPT ![s] =
              IF stale
              THEN [me EXCEPT !.pc = "idle", !.calls = @ + 1]
              ELSE [me EXCEPT !.pc = "select",
                              !.loaded = {r \in me.loaded :
                                            /\ r.id \notin me.deleted
                                            /\ r.id \notin {d.id : d \in me.dirty}}
                                         \cup me.dirty,
                              !.dirty = {}, !.deleted = {}]]
        /\ UNCHANGED <<products, orders, order_items, ret, gate>>

\* the SELECT of the (user, product) row: scalar_one_or_none raises
\* MultipleResultsFound on two rows; a row the session holds keeps the
\* quantity it was read with
SelectForUpdate(s) ==
    LET me == sess[s]
        found == RowsOf(cart, me.user_id, me.product_id)
        row == CHOOSE r \in found : TRUE
        held == {l \in me.loaded : l.id = row.id}
    IN  /\ me.pc = "select"
        /\ sess' = [sess EXCEPT ![s] =
              IF Cardinality(found) > 1
              THEN [me EXCEPT !.pc = "idle", !.calls = @ + 1]
              ELSE IF found = {}
              THEN [me EXCEPT !.pc = "flush", !.cart_item = 0]
              ELSE [me EXCEPT !.pc = "flush", !.cart_item = row.id,
                              !.loaded = IF held # {} THEN @ ELSE @ \cup {row}]]
        /\ UNCHANGED <<products, cart, orders, order_items, ret, gate>>

\* cart_item.quantity += quantity or session.add(cart_item), and the commit:
\* an UPDATE that matches no row raises StaleDataError
FlushCommit(s) ==
    LET me == sess[s]
        held == CHOOSE l \in me.loaded : l.id = me.cart_item
        gone == me.cart_item # 0 /\ me.cart_item \notin {r.id : r \in cart}
        written ==
            IF me.cart_item = 0
            THEN cart \cup {[id |-> NextId(cart), user_id |-> me.user_id,
                             product_id |-> me.product_id, quantity |-> me.quantity]}
            ELSE {IF r.id = me.cart_item
                  THEN [r EXCEPT !.quantity = held.quantity + me.quantity]
                  ELSE r : r \in cart}
    IN  /\ me.pc = "flush"
        /\ cart' = IF gone THEN cart ELSE written
        /\ ret' = IF gone THEN NoneRet
                  ELSE RowRet("cart", IF me.cart_item = 0 THEN NextId(cart) ELSE me.cart_item)
        /\ sess' = [sess EXCEPT ![s] =
              [me EXCEPT !.pc = "idle", !.calls = @ + 1,
                         !.added = IF gone THEN @ ELSE @ + me.quantity]]
        /\ UNCHANGED <<products, orders, order_items, gate>>

\* both sessions add product 1 to the cart of user 1
NextConc ==
    \/ \E s \in Sessions, q \in 1..(MaxQty + 1) : CallAddToCart(s, 1, 1, q)
    \/ \E s \in Sessions : MergeSelect(s)
    \/ \E s \in Sessions : MergeCommit(s)
    \/ \E s \in Sessions : SelectForUpdate(s)
    \/ \E s \in Sessions : FlushCommit(s)

SpecConc == InitConc /\ [][NextConc]_vars

(* --------------------------- refused entries -------------------------- *)

delete_product(prods, product_id) ==
    [p \in DOMAIN prods \ {product_id} |-> prods[p]]

\* delete_product_confirm: the cart rows for the product stay (a bulk
\* DELETE runs no cascade)
AdminDeleteProduct(product_id) ==
    /\ products' = IF HasProduct(products, product_id)
                   THEN delete_product(products, product_id)
                   ELSE products
    /\ ret' = NoneRet
    /\ UNCHANGED <<cart, orders, order_items, sess, gate>>

\* the shop of Init, product 2 marked available or not in the database (no
\* handler writes is_available; create_order and the catalogue read it)
InitSkip ==
    /\ \E a \in BOOLEAN :
          products = (1 :> Product(2, InitStock))
                       @@ (2 :> [Product(1, InitStock) EXCEPT !.is_available = a])
    /\ cart = {[id |-> 1, user_id |-> 2, product_id |-> 1, quantity |-> 1]}
    /\ orders = {}
    /\ order_items = {}
    /\ ret = NoneRet
    /\ sess = << >>
    /\ InitGate

\* the customer ordering while the admin completes orders and deletes
\* products
NextSkip ==
    \/ \E p \in Catalogue, q \in 1..MaxQty : AddToCart(1, p, q)
    \/ \E m \in DeliveryMethods : ConfirmOrder(1, m)
    \/ \E o \in OrderIds : SetOrderStatus(o, "completed")
    \/ \E p \in Catalogue : AdminDeleteProduct(p)

SpecSkip == InitSkip /\ [][NextSkip]_vars

(* ----------------------------- cart edits ----------------------------- *)

\* a call of crud.update_cart_item_quantity
UpdateCartItemQuantity(cart_id, quantity) ==
    /\ cart' = update_cart_item_quantity(cart, cart_id, quantity)
    /\ ret' = NoneRet
    /\ UNCHANGED <<products, orders, order_items, sess, gate>>

\* the carts of both users filled by add_to_cart and edited row by row
NextCartEdit ==
    \/ \E u \in Users, p \in Catalogue, q \in 1..MaxQty : AddToCart(u, p, q)
    \/ \E id \in CartIds, q \in (-1)..MaxCartQty : UpdateCartItemQuantity(id, q)

SpecCartEdit == Init /\ [][NextCartEdit]_vars

(* ------------------------- carts with duplicates ---------------------- *)

\* what a cart row holds beside its id
CartShapes ==
    [user_id : Users, product_id : Catalogue, quantity : 1..MaxQty]

\* the cart table with the rows f gives, f[k] under id k
CartTable(f) ==
    {[id |-> k, user_id |-> f[k].user_id, product_id |-> f[k].product_id,
      quantity |-> f[k].quantity] : k \in DOMAIN f}

\* every cart table of up to MaxCartRows rows: the rows interleaved
\* add_to_cart calls can leave, several for one (user, product) included
InitCoalesce ==
    /\ products = (1 :> Product(2, InitStock)) @@ (2 :> Product(1, InitStock))
    /\ \E ids \in SUBSET (1..MaxCartRows) :
          \E f \in [ids -> CartShapes] : cart = CartTable(f)
    /\ orders = {}
    /\ order_items = {}
    /\ ret = NoneRet
    /\ sess = << >>
    /\ InitGate

\* a call of crud.get_user_cart (show_cart_internal, checkout, confirm_order)
GetUserCart(u) ==
    /\ cart' = merge_duplicate_cart_items(cart, u)
    /\ ret' = [kind |-> "rows", val |-> get_user_cart(cart, u)]
    /\ UNCHANGED <<products, orders, order_items, sess, gate>>

NextCoalesce ==
    \/ \E u \in Users : GetUserCart(u)
    \/ \E id \in CartIds : RemoveFromCart(id)

SpecCoalesce == InitCoalesce /\ [][NextCoalesce]_vars

(* ---------------------- line items with duplicates -------------------- *)

MaxItemRows == 3

\* what a line item holds beside its id
ItemShapes ==
    [order_id : 1..MaxOrders, product_id : Catalogue,
     quantity : 1..MaxItemQty, price_at_order : Prices]

\* the line-item table with the rows f gives, f[k] under id k
ItemTable(f) ==
    {[id |-> k, order_id |-> f[k].order_id, product_id |-> f[k].product_id,
      quantity |-> f[k].quantity, price_at_order |-> f[k].price_at_order] :
        k \in DOMAIN f}

\* every line-item table of up to MaxItemRows rows over the orders
InitItems ==
    /\ products = (1 :> Product(2, InitStock)) @@ (2 :> Product(1, InitStock))
    /\ cart = {}
    /\ orders = {[id |-> o, user_id |-> 1, total_price |-> 0,
                  status |-> IF o = 1 THEN "completed" ELSE "processing",
                  contact_info |-> ContactInfo(1, TRUE),
                  delivery_method |-> "pickup", delivery_fee |-> 0] :
                    o \in 1..MaxOrders}
    /\ \E ids \in SUBSET (1..MaxItemRows) :
          \E f \in [ids -> ItemShapes] : order_items = ItemTable(f)
    /\ ret = NoneRet
    /\ sess = << >>
    /\ InitGate

\* a call of crud.merge_duplicate_order_items on the table as it is
MergeDuplicateOrderItems(order_id) ==
    /\ order_items' = merge_duplicate_order_items(order_items, order_id)
    /\ ret' = NoneRet
    /\ UNCHANGED <<products, cart, orders, sess, gate>>

\* cmd_fix_orders on the table as it is
CmdFixOrders ==
    LET fixed == merge_all(order_items, SortById(orders))
    IN  /\ order_items' = fixed
        /\ orders' = {[o EXCEPT !.total_price =
                          SumTotal(ItemsOf(fixed, o.id)) + o.delivery_fee] : o \in orders}
        /\ ret' = NoneRet
        /\ UNCHANGED <<products, cart, sess, gate>>

NextItems ==
    \/ \E o \in OrderIds : MergeDuplicateOrderItems(o)
    \/ CmdFixOrders

SpecItems == InitItems /\ [][NextItems]_vars

(* ------------------------------ settings ------------------------------ *)

SettingKeys == {"maintenance_mode", "welcome_message"}
SettingValues == {"true", "false", "True", "hello"}

\* str.lower on the values written
lower(v) == IF v = "True" THEN "true" ELSE v

StrRet(v) == [kind |-> "str", val |-> v]

SettingRows(s, key) == {r \in s : r.setting_key = key}

\* scalar_one_or_none: no row is None, several rows raise
get_setting(s, key) ==
    LET setting == SettingRows(s, key)
    IN  IF setting = {} THEN NoneRet
        ELSE IF Cardinality(setting) = 1
             THEN StrRet((CHOOSE r \in setting : TRUE).setting_value)
             ELSE [kind |-> "raise", val |-> 0]

update_setting_always_add(s, key, value) ==
    s \cup {[id |-> NextId(s), setting_key |-> key, setting_value |-> value]}

update_setting(s, key, value) ==
    IF SettingRows(s, key) # {}
    THEN {IF r.setting_key = key THEN [r EXCEPT !.setting_value = value] ELSE r : r \in s}
    ELSE s \cup {[id |-> NextId(s), setting_key |-> key, setting_value |-> value]}

\* the table and the answer: a missing row is created as 'false'
get_maintenance_mode(s) ==
    LET setting == SettingRows(s, "maintenance_mode")
    IN  IF setting = {}
        THEN [settings |-> s \cup {[id |-> NextId(s),
                                    setting_key |-> "maintenance_mode",
                                    setting_value |-> "false"]},
              ret |-> BoolRet(FALSE)]
        ELSE [settings |-> s,
              ret |-> BoolRet(lower((CHOOSE r \in setting : TRUE).setting_value) = "true")]

set_maintenance_mode(s, enabled_) ==
    LET value == IF enabled_ THEN "true" ELSE "false"
    IN  IF SettingRows(s, "maintenance_mode") # {}
        THEN {IF r.setting_key = "maintenance_mode"
              THEN [r EXCEPT !.setting_value = value] ELSE r : r \in s}
        ELSE s \cup {[id |-> NextId(s), setting_key |-> "maintenance_mode",
                      setting_value |-> value]}

GetSetting(key) ==
    /\ ret' = get_setting(settings, key)
    /\ UNCHANGED <<products, cart, orders, order_items, sess, gate>>

UpdateSetting(key, value) ==
    /\ settings' = update_setting(settings, key, value)
    /\ ret' = NoneRet
    /\ UNCHANGED <<products, cart, orders, order_items, sess, enabled, users, reply,
                   user_data, backup, models>>

GetMaintenanceMode ==
    /\ settings' = get_maintenance_mode(settings).settings
    /\ ret' = get_maintenance_mode(settings).ret
    /\ UNCHANGED <<products, cart, orders, order_items, sess, enabled, users, reply,
                   user_data, backup, models>>

SetMaintenanceMode(enabled_) ==
    /\ settings' = set_maintenance_mode(settings, enabled_)
    /\ enabled' = <<enabled_>>
    /\ ret' = NoneRet
    /\ UNCHANGED <<products, cart, orders, order_items, sess, users, reply,
                   user_data, backup, models>>

NextSettings ==
    \/ \E k \in SettingKeys : GetSetting(k)
    \/ \E k \in SettingKeys, v \in SettingValues : UpdateSetting(k, v)
    \/ GetMaintenanceMode
    \/ \E b \in BOOLEAN : SetMaintenanceMode(b)

SpecSettings == Init /\ [][NextSettings]_vars

(* ------------------------- bans and maintenance ----------------------- *)

ban_user(us, user_id, ban) ==
    IF user_id \in DOMAIN us THEN [us EXCEPT ![user_id].is_banned = ban] ELSE us

\* what @check_maintenance @check_banned decide for a user: check_maintenance
\* is the outer one, lets the admins through unasked and reads the mode for
\* everybody else; check_banned then looks at the user's flag
Verdict(a) ==
    IF a \notin Admins /\ get_maintenance_mode(settings).ret = BoolRet(TRUE)
    THEN "maintenance"
    ELSE IF users[a].is_banned THEN "blocked" ELSE "run"

\* a handler of user.py under both decorators; Body is what the handler
\* does to the shop
Wrapped(a, Body) ==
    /\ settings' = IF a \in Admins THEN settings
                   ELSE get_maintenance_mode(settings).settings
    /\ IF Verdict(a) = "run"
       THEN Body /\ reply' = "done"
       ELSE /\ reply' = Verdict(a)
            /\ UNCHANGED <<products, cart, orders, order_items, ret>>
    /\ UNCHANGED <<sess, enabled, users, user_data, backup, models>>

\* cmd_cart: the cart is shown, which merges its duplicates
UserCart_(a) ==
    Wrapped(a, /\ cart' = merge_duplicate_cart_items(cart, a)
               /\ ret' = NoneRet
               /\ UNCHANGED <<products, orders, order_items>>)

\* handle_message in state awaiting_product_quantity
UserAddToCart(a, p, q) ==
    /\ HasProduct(products, p)
    /\ CartQty(cart, a, p) + q <= MaxCartQty
    /\ \A r \in add_to_cart(cart, a, p, q) : r.id <= MaxCartRows
    /\ Wrapped(a, /\ cart' = add_to_cart(cart, a, p, q)
                  /\ ret' = RowRet("cart", (CHOOSE r \in cart' :
                                     r.user_id = a /\ r.product_id = p).id)
                  /\ UNCHANGED <<products, orders, order_items>>)

\* handle_callback, the clear button of the cart
UserClearCart(a) ==
    Wrapped(a, /\ cart' = clear_user_cart(cart, a)
               /\ ret' = NoneRet
               /\ UNCHANGED <<products, orders, order_items>>)

\* handle_callback, confirm_order
UserConfirmOrder(a, delivery_method) ==
    LET cart_items == get_user_cart(cart, a)
        delivery_fee == IF delivery_method = "delivery" THEN DeliveryFee ELSE 0
        after == create_order([Db EXCEPT !.cart = merge_duplicate_cart_items(cart, a)],
                              a, cart_items, ContactInfo(a, TRUE), delivery_method,
                              delivery_fee)
    IN  /\ cart_items # << >>
        /\ \A o \in after.orders : o.id <= MaxOrders
        /\ \A i \in after.order_items : i.id <= MaxItems
        /\ \A i \in after.order_items : i.quantity <= MaxItemQty
        /\ Wrapped(a, /\ products' = after.products
                      /\ cart' = after.cart
                      /\ orders' = after.orders
                      /\ order_items' = after.order_items
                      /\ ret' = after.ret)

\* handle_admin_callback under @admin_required alone; Body is what the
\* button does
AdminOnly(a, Body) ==
    /\ IF a \in Admins
       THEN Body /\ reply' = "done"
       ELSE /\ reply' = "no_admin"
            /\ UNCHANGED <<products, cart, orders, order_items, ret, users>>
    /\ UNCHANGED <<sess, settings, enabled, user_data, backup, models>>

\* admin_ban_user, admin_unban_user
AdminBanUser(a, user_id, ban) ==
    AdminOnly(a, /\ users' = ban_user(users, user_id, ban)
                 /\ ret' = NoneRet
                 /\ UNCHANGED <<products, cart, orders, order_items>>)

\* set_order_status
AdminSetOrderStatus(a, order_id, new_status) ==
    AdminOnly(a, /\ orders' = update_order_status(orders, order_id, new_status)
                 /\ ret' = NoneRet
                 /\ UNCHANGED <<products, cart, order_items, users>>)

\* delete_order_confirm
AdminDeleteOrder(a, order_id) ==
    LET after == delete_order(Db, order_id)
    IN  /\ \A p \in DOMAIN after.products : after.products[p].stock_quantity <= StockCap
        /\ AdminOnly(a, /\ products' = after.products
                        /\ orders' = after.orders
                        /\ order_items' = after.order_items
                        /\ ret' = after.ret
                        /\ UNCHANGED <<cart, users>>)

\* the customer fills the cart and orders
Shoppers == Customers

NextBan ==
    \/ \E a \in Actors : UserCart_(a)
    \/ \E a \in Shoppers : UserAddToCart(a, 1, 1)
    \/ \E a \in Actors : UserClearCart(a)
    \/ \E a \in Shoppers : UserConfirmOrder(a, "pickup")
    \/ \E a, t \in Actors, b \in BOOLEAN : AdminBanUser(a, t, b)
    \/ \E a \in Actors, o \in OrderIds : AdminSetOrderStatus(a, o, "completed")
    \/ \E a \in Actors, o \in OrderIds : AdminDeleteOrder(a, o)
    \/ \E b \in BOOLEAN : SetMaintenanceMode(b)

SpecBan == Init /\ [][NextBan]_vars

(* -------------------------------- quota -------------------------------- *)

\* "10 - total_items" of show_product_detail
Quota == 10
\* stock of product 1 when the quota is exercised
QuotaStock == 20

\* what int(update.message.text.strip()) makes of the customer's message
QuantityTexts ==
    {[numeric |-> TRUE, val |-> n] : n \in {0, 5, Quota}}
        \cup {[numeric |-> FALSE, val |-> 0]}

\* select(Order).where(user_id, status == 'processing') ... first()
active_order(os, user_id) ==
    LET processing == {o \in os : o.user_id = user_id /\ o.status = "processing"}
    IN  IF processing = {} THEN {}
        ELSE {CHOOSE o \in processing : o.id = MinOf({x.id : x \in processing})}

\* total_items of show_product_detail: the units of the cart and of the
\* active order
total_items(db, user_id) ==
    SumQty(UserCart(db.cart, user_id))
        + SumQty(UNION {ItemsOf(db.order_items, o.id) : o \in active_order(db.orders, user_id)})

\* the user_data show_product_detail leaves: the state is set only while
\* slots are left
show_product_detail(db, data, user_id, product_id) ==
    LET available_slots == Quota - total_items(db, user_id)
    IN  IF available_slots > 0
        THEN [data EXCEPT !.state = "awaiting_product_quantity",
                          !.product_id = product_id,
                          !.available_slots = available_slots,
                          !.product_stock = db.products[product_id].stock_quantity]
        ELSE data

\* what handle_message answers to a text
quantity_reply(data, text) ==
    IF data.state # "awaiting_product_quantity" THEN "menu"
    ELSE IF ~text.numeric THEN "not_a_number"
    ELSE IF text.val <= 0 THEN "not_positive"
    ELSE IF text.val > data.available_slots THEN "over_limit"
    ELSE IF text.val > data.product_stock THEN "over_stock"
    ELSE "added"

quantity_accepted_unchecked_stock(prods, data, text) ==
    /\ data.state = "awaiting_product_quantity"
    /\ text.numeric
    /\ text.val > 0
    /\ text.val <= data.available_slots
    /\ HasProduct(prods, data.product_id)

\* whether handle_message, in state awaiting_product_quantity, gets as far
\* as add_to_cart with this text
quantity_accepted(prods, data, text) ==
    /\ data.state = "awaiting_product_quantity"
    /\ text.numeric
    /\ text.val > 0
    /\ text.val <= data.available_slots
    /\ text.val <= data.product_stock
    /\ HasProduct(prods, data.product_id)

\* handle_callback, a product_<id> button of the catalogue
ShowProductDetail(u, p) ==
    /\ HasProduct(products, p)
    /\ cart' = merge_duplicate_cart_items(cart, u)
    /\ user_data' = [user_data EXCEPT ![u] = show_product_detail(Db, @, u, p)]
    /\ ret' = NoneRet
    /\ UNCHANGED <<products, orders, order_items, sess, settings, enabled, users,
                   reply, backup, models>>

\* handle_message of a customer
HandleMessage(u, text) ==
    /\ IF quantity_accepted(products, user_data[u], text)
       THEN /\ \A r \in add_to_cart(cart, u, user_data[u].product_id, text.val) :
                    r.id <= MaxCartRows
            /\ cart' = add_to_cart(cart, u, user_data[u].product_id, text.val)
            /\ user_data' = [user_data EXCEPT ![u] = NoUserData]
       ELSE UNCHANGED <<cart, user_data>>
    /\ reply' = quantity_reply(user_data[u], text)
    /\ ret' = NoneRet
    /\ UNCHANGED <<products, orders, order_items, sess, settings, enabled, users,
                   backup, models>>

\* confirm_order, whatever the quantities
ConfirmOrderButton(u, delivery_method) ==
    LET cart_items == get_user_cart(cart, u)
        delivery_fee == IF delivery_method = "delivery" THEN DeliveryFee ELSE 0
        after == create_order([Db EXCEPT !.cart = merge_duplicate_cart_items(cart, u)],
                              u, cart_items, ContactInfo(u, TRUE), delivery_method,
                              delivery_fee)
    IN  /\ cart_items # << >>
        /\ \A o \in after.orders : o.id <= MaxOrders
        /\ \A i \in after.order_items : i.id <= MaxItems
        /\ \A i \in after.order_items : i.quantity <= 2 * Quota
        /\ products' = after.products
        /\ cart' = after.cart
        /\ orders' = after.orders
        /\ order_items' = after.order_items
        /\ ret' = after.ret
        /\ UNCHANGED <<sess, gate>>

\* delete_order_confirm, whatever the quantities
DeleteOrderButton(order_id) ==
    LET after == delete_order(Db, order_id)
    IN  /\ \A p \in DOMAIN after.products : after.products[p].stock_quantity <= QuotaStock
        /\ products' = after.products
        /\ orders' = after.orders
        /\ order_items' = after.order_items
        /\ ret' = after.ret
        /\ UNCHANGED <<cart, sess, gate>>

InitQuota ==
    /\ products = (1 :> Product(2, QuotaStock)) @@ (2 :> Product(1, InitStock))
    /\ cart = {}
    /\ orders = {}
    /\ order_items = {}
    /\ ret = NoneRet
    /\ sess = << >>
    /\ InitGate

NextQuota ==
    \/ \E u \in Customers, p \in Catalogue : ShowProductDetail(u, p)
    \/ \E u \in Customers, t \in QuantityTexts : HandleMessage(u, t)
    \/ \E u \in Customers : ClearCart(u)
    \/ \E u \in Customers : ConfirmOrderButton(u, "pickup")
    \/ \E o \in OrderIds, st \in Statuses : SetOrderStatus(o, st)
    \/ \E o \in OrderIds : DeleteOrderButton(o)

SpecQuota == InitQuota /\ [][NextQuota]_vars

(* -------------------------------- models ------------------------------- *)

\* delete(Model).where(Model.id == model_id): a statement on the models
\* table alone; the relationship's cascade belongs to session.delete, the
\* foreign key has no ON DELETE and SQLite is left with foreign_keys off
delete_model(ms, model_id) == ms \ {model_id}

\* delete_model_confirm: a model that is not there is answered
AdminDeleteModel(model_id) ==
    /\ models' = delete_model(models, model_id)
    /\ ret' = NoneRet
    /\ UNCHANGED <<products, cart, orders, order_items, sess, settings, enabled,
                   users, reply, user_data, backup>>

\* product 1 is a flavour of model 1, product 2 of model 2
InitModels ==
    /\ products = (1 :> Product(2, InitStock))
                    @@ (2 :> [Product(1, InitStock) EXCEPT !.model_id = 2])
    /\ cart = {}
    /\ orders = {}
    /\ order_items = {}
    /\ ret = NoneRet
    /\ sess = << >>
    /\ InitGate

NextModels ==
    \/ \E p \in Catalogue, q \in 1..MaxQty : AddToCart(1, p, q)
    \/ \E m \in DeliveryMethods : ConfirmOrder(1, m)
    \/ \E m \in 1..3 : AdminDeleteModel(m)
    \/ \E p \in Catalogue : AdminDeleteProduct(p)

SpecModels == InitModels /\ [][NextModels]_vars

(* ---------------------------- backup and reset ------------------------- *)

\* delete(Cart), delete(OrderItem), delete(Order)
wipe(db) == [db EXCEPT !.cart = {}, !.order_items = {}, !.orders = {}]

backup_and_wipe_despite_failure(db, bk, copy_ok) ==
    [db |-> wipe(db), backup |-> IF copy_ok THEN <<db>> ELSE bk]

\* shutil.copy2 of the database file, then the three deletes; a copy that
\* raises is answered and nothing is deleted
backup_and_wipe(db, bk, copy_ok) ==
    IF copy_ok THEN [db |-> wipe(db), backup |-> <<db>>]
    ELSE [db |-> db, backup |-> bk]

\* /reset_db: the first call arms reset_db_confirm and shows the buttons
CmdResetDb(a, copy_ok) ==
    LET after == backup_and_wipe(Db, backup, copy_ok)
        armed == user_data[a].reset_db_confirm
    IN  /\ IF a \notin Admins
           THEN UNCHANGED <<cart, orders, order_items, backup, user_data>>
           ELSE IF ~armed
           THEN /\ user_data' = [user_data EXCEPT ![a].reset_db_confirm = TRUE]
                /\ UNCHANGED <<cart, orders, order_items, backup>>
           ELSE /\ cart' = after.db.cart
                /\ orders' = after.db.orders
                /\ order_items' = after.db.order_items
                /\ backup' = after.backup
                /\ user_data' = [user_data EXCEPT ![a] = NoUserData]
        /\ ret' = NoneRet
        /\ UNCHANGED <<products, sess, settings, enabled, users, reply, models>>

\* the confirm_reset_db button
ConfirmResetDb(a, copy_ok) ==
    LET after == backup_and_wipe(Db, backup, copy_ok)
    IN  /\ IF a \notin Admins
           THEN UNCHANGED <<cart, orders, order_items, backup, user_data>>
           ELSE /\ cart' = after.db.cart
                /\ orders' = after.db.orders
                /\ order_items' = after.db.order_items
                /\ backup' = after.backup
                /\ user_data' = [user_data EXCEPT ![a] = NoUserData]
        /\ ret' = NoneRet
        /\ UNCHANGED <<products, sess, settings, enabled, users, reply, models>>

NextReset ==
    \/ \E q \in 1..MaxQty : AddToCart(1, 1, q)
    \/ ConfirmOrder(1, "pickup")
    \/ \E a \in Actors, ok \in BOOLEAN : CmdResetDb(a, ok)
    \/ \E a \in Actors, ok \in BOOLEAN : ConfirmResetDb(a, ok)

SpecReset == Init /\ [][NextReset]_vars

(* ------------------------------ removals ------------------------------- *)

\* the operations that remove orders or line items, and the checkout that
\* fills them
NextRemoval ==
    \/ AddToCart(1, 1, 1)
    \/ ConfirmOrder(1, "pickup")
    \/ \E o \in OrderIds : DeleteOrder(o)
    \/ \E o \in OrderIds : MergeOrderItems(o)
    \/ \E ok \in BOOLEAN : ConfirmResetDb(2, ok)

SpecRemoval == Init /\ [][NextRemoval]_vars

(* ------------------- create_order, statement by statement ------------- *)

\* Two confirm_order handlers run create_order, each in its own session.
\* Every await is a point where the other handler may run.  A SELECT holds
\* no lock after it returns; an UPDATE, INSERT or DELETE and the commit that
\* follows it are one write to the file.  A session keeps the objects it has
\* read (expire_on_commit=False): a later SELECT of the same row hands back
\* the object with the values read first, and the bulk UPDATE of
\* update_product brings the session's own object up to date.
\* confirm_order runs at most this many times in a session
MaxCheckouts == 1

IdleCheckout ==
    [pc |-> "idle", user_id |-> 0, delivery_method |-> "pickup",
     cart_items |-> << >>, idx |-> 0, held |-> << >>, held_orders |-> {},
     existing_order |-> {}, existing_items |-> << >>,
     order_items_list |-> << >>, total |-> 0, order_id |-> 0,
     calls |-> 0, raced |-> FALSE]

InitCheckout ==
    /\ products = (1 :> Product(2, InitStock)) @@ (2 :> Product(1, InitStock))
    /\ cart = {[id |-> 1, user_id |-> 2, product_id |-> 1, quantity |-> 1]}
    /\ orders = {}
    /\ order_items = {}
    /\ ret = NoneRet
    /\ sess = [s \in Sessions |-> IdleCheckout]
    /\ InitGate

\* the product object get_product_by_id hands to session me: the one it
\* holds, or the row of the table read now
SessionProduct(me, prods, product_id) ==
    IF product_id \in DOMAIN me.held THEN me.held[product_id]
    ELSE get_product_by_id(prods, product_id)

update_stock_from_table(prods, product, product_id, quantity_change) ==
    [prods EXCEPT ![product_id].stock_quantity = @ + quantity_change]

\* update_stock in a session: product is the object get_product_by_id
\* returned, the UPDATE writes the number computed from it
update_stock_in_session(prods, product, product_id, quantity_change) ==
    LET new_quantity == product.stock_quantity + quantity_change
    IN  [prods EXCEPT ![product_id].stock_quantity =
                          IF new_quantity > 0 THEN new_quantity ELSE 0]

\* confirm_order up to the cart test: get_user_cart, an empty cart ends the
\* handler.  raced records that two executions were in progress together.
CallConfirmOrder(s, u, delivery_method) ==
    LET cart_items == get_user_cart(cart, u)
        busy == \E t \in Sessions \ {s} : sess[t].pc # "idle"
    IN  /\ sess[s].pc = "idle"
        /\ sess[s].calls < MaxCheckouts
        /\ cart_items # << >>
        /\ cart' = merge_duplicate_cart_items(cart, u)
        /\ sess' = [t \in Sessions |->
              IF t = s
              THEN [IdleCheckout EXCEPT !.pc = "had_existing", !.user_id = u,
                                        !.delivery_method = delivery_method,
                                        !.cart_items = cart_items,
                                        !.calls = sess[s].calls,
                                        !.raced = sess[s].raced \/ busy]
              ELSE [sess[t] EXCEPT !.raced = @ \/ (sess[t].pc # "idle")]]
        /\ UNCHANGED <<products, orders, order_items, ret, gate>>

\* the handler's own SELECT of the processing order (had_existing_order)
HadExistingOrder(s) ==
    LET me == sess[s]
        found == processing_orders(orders, me.user_id)
    IN  /\ me.pc = "had_existing"
        /\ sess' = [sess EXCEPT ![s] =
              [me EXCEPT !.pc = "select_order",
                         !.held_orders = IF found # << >> THEN {found[1]} ELSE {}]]
        /\ UNCHANGED <<products, cart, orders, order_items, ret, gate>>

\* create_order: the SELECT of the processing order
SelectOrder(s) ==
    LET me == sess[s]
        found == processing_orders(orders, me.user_id)
        held_row == {h \in me.held_orders : found # << >> /\ h.id = found[1].id}
    IN  /\ me.pc = "select_order"
        /\ sess' = [sess EXCEPT ![s] =
              [me EXCEPT !.pc = "check", !.idx = 1, !.total = 0,
                         !.order_items_list = << >>,
                         !.existing_order =
                             IF found = << >> THEN {}
                             ELSE IF held_row # {} THEN held_row
                             ELSE {found[1]}]]
        /\ UNCHANGED <<products, cart, orders, order_items, ret, gate>>

\* the head of either loop: get_product_by_id and the test on the entry
CheckEntry(s) ==
    LET me == sess[s]
        cart_item == me.cart_items[me.idx]
        exists == \/ cart_item.product_id \in DOMAIN me.held
                  \/ HasProduct(products, cart_item.product_id)
        product == SessionProduct(me, products, cart_item.product_id)
        accepted == /\ exists
                    /\ product.is_available
                    /\ product.stock_quantity >= cart_item.quantity
    IN  /\ me.pc = "check"
        /\ sess' = [sess EXCEPT ![s] =
              IF me.idx > Len(me.cart_items)
              THEN [me EXCEPT !.pc = "commit_order"]
              ELSE IF ~accepted
              THEN [me EXCEPT !.idx = @ + 1,
                              !.held = IF exists
                                       THEN (cart_item.product_id :> product) @@ @
                                       ELSE @]
              ELSE [me EXCEPT
                      !.held = (cart_item.product_id :> product) @@ @,
                      !.total = @ + product.price * cart_item.quantity,
                      !.pc = IF me.existing_order # {} THEN "select_items"
                             ELSE "update_stock",
                      !.order_items_list =
                          IF me.existing_order # {} THEN @
                          ELSE Append(@, [product_id |-> cart_item.product_id,
                                          quantity |-> cart_item.quantity,
                                          price_at_order |-> product.price])]]
        /\ UNCHANGED <<products, cart, orders, order_items, ret, gate>>

\* the amend loop: the SELECT of the order's rows for the product and price
SelectItems(s) ==
    LET me == sess[s]
        cart_item == me.cart_items[me.idx]
        product == me.held[cart_item.product_id]
        existing_order == CHOOSE o \in me.existing_order : TRUE
    IN  /\ me.pc = "select_items"
        /\ sess' = [sess EXCEPT ![s] =
              [me EXCEPT !.pc = "update_stock",
                         !.existing_items =
                             SortById({i \in order_items :
                                         /\ i.order_id = existing_order.id
                                         /\ i.product_id = cart_item.product_id
                                         /\ i.price_at_order = product.price})]]
        /\ UNCHANGED <<products, cart, orders, order_items, ret, gate>>

\* update_stock: its SELECT flushes the line item the amend loop has just
\* changed or added (an UPDATE that matches no row raises StaleDataError and
\* ends the call), then the UPDATE of the stock and the commit
FlushUpdateStock(s) ==
    LET me == sess[s]
        cart_item == me.cart_items[me.idx]
        product == me.held[cart_item.product_id]
        amend == me.existing_order # {}
        existing_order == CHOOSE o \in me.existing_order : TRUE
        ids == {i.id : i \in order_items}
        stale == /\ amend
                 /\ me.existing_items # << >>
                 /\ me.existing_items[1].id \notin ids
        gone == {me.existing_items[k].id : k \in 2..Len(me.existing_items)}
        flushed ==
            IF ~amend THEN order_items
            ELSE IF me.existing_items # << >>
            THEN {IF i.id = me.existing_items[1].id
                  THEN [i EXCEPT !.quantity =
                            me.existing_items[1].quantity + cart_item.quantity]
                  ELSE i : i \in {j \in order_items : j.id \notin gone}}
            ELSE order_items \cup
                 {[id |-> NextId(order_items), order_id |-> existing_order.id,
                   product_id |-> cart_item.product_id,
                   quantity |-> cart_item.quantity,
                   price_at_order |-> product.price]}
        written == update_stock_in_session(products, product, cart_item.product_id,
                                           -cart_item.quantity)
    IN  /\ me.pc = "update_stock"
        /\ order_items' = IF stale THEN order_items ELSE flushed
        /\ products' = IF stale \/ ~HasProduct(products, cart_item.product_id)
                       THEN products ELSE written
        /\ sess' = [sess EXCEPT ![s] =
              IF stale
              THEN [me EXCEPT !.pc = "idle", !.calls = @ + 1]
              ELSE [me EXCEPT !.pc = "check", !.idx = @ + 1,
                              !.existing_items = << >>,
                              !.held = IF HasProduct(products, cart_item.product_id)
                                       THEN (cart_item.product_id :>
                                               written[cart_item.product_id]) @@ @
                                       ELSE @]]
        /\ UNCHANGED <<cart, orders, ret, gate>>

\* after the loop: the amend path adds to the total of the order object it
\* holds and commits; the create path inserts the order and commits
CommitOrder(s) ==
    LET me == sess[s]
        amend == me.existing_order # {}
        existing_order == CHOOSE o \in me.existing_order : TRUE
        delivery_fee == IF me.delivery_method = "delivery" THEN DeliveryFee ELSE 0
        order == [id |-> NextId(orders), user_id |-> me.user_id,
                  total_price |-> me.total + delivery_fee,
                  status |-> "processing",
                  contact_info |-> ContactInfo(me.user_id, TRUE),
                  delivery_method |-> me.delivery_method,
                  delivery_fee |-> delivery_fee]
    IN  /\ me.pc = "commit_order"
        /\ orders' = IF amend
                     THEN {IF o.id = existing_order.id
                           THEN [o EXCEPT !.total_price =
                                     existing_order.total_price + me.total]
                           ELSE o : o \in orders}
                     ELSE orders \cup {order}
        /\ sess' = [sess EXCEPT ![s] =
              IF amend
              THEN [me EXCEPT !.pc = "clear", !.order_id = existing_order.id]
              ELSE [me EXCEPT !.pc = "insert_items", !.order_id = order.id]]
        /\ UNCHANGED <<products, cart, order_items, ret, gate>>

\* the create path: the rows of order_items_list and their commit
InsertItems(s) ==
    LET me == sess[s]
    IN  /\ me.pc = "insert_items"
        /\ order_items' = insert_order_items(order_items, me.order_id,
                                             me.order_items_list)
        /\ sess' = [sess EXCEPT ![s] = [me EXCEPT !.pc = "clear",
                                                  !.order_items_list = << >>]]
        /\ UNCHANGED <<products, cart, orders, ret, gate>>

\* clear_user_cart and the return of the order
ClearUserCart(s) ==
    LET me == sess[s]
    IN  /\ me.pc = "clear"
        /\ cart' = clear_user_cart(cart, me.user_id)
        /\ ret' = RowRet("order", me.order_id)
        /\ sess' = [sess EXCEPT ![s] =
              [IdleCheckout EXCEPT !.calls = me.calls + 1, !.raced = me.raced]]
        /\ UNCHANGED <<products, orders, order_items, gate>>

\* two devices of user 1 and one of user 2, all buying product 1
NextCheckout ==
    \/ \E u \in Users : AddToCart(u, 1, 1)
    \/ \E s \in Sessions, u \in Users : CallConfirmOrder(s, u, "pickup")
    \/ \E s \in Sessions : HadExistingOrder(s)
    \/ \E s \in Sessions : SelectOrder(s)
    \/ \E s \in Sessions : CheckEntry(s)
    \/ \E s \in Sessions : SelectItems(s)
    \/ \E s \in Sessions : FlushUpdateStock(s)
    \/ \E s \in Sessions : CommitOrder(s)
    \/ \E s \in Sessions : InsertItems(s)
    \/ \E s \in Sessions : ClearUserCart(s)

SpecCheckout == InitCheckout /\ [][NextCheckout]_vars

(* ---------------------------- order header ---------------------------- *)

\* confirm_order with its inputs: the delivery method of the button and the
\* Telegram user with or without a username; the answer names the path
\* taken (had_existing_order) and the delivery method of this checkout
ConfirmOrderFrom(u, has_username, delivery_method) ==
    LET cart_items == get_user_cart(cart, u)
        delivery_fee == IF delivery_method = "delivery" THEN DeliveryFee ELSE 0
        had_existing_order == processing_orders(orders, u) # << >>
        after == create_order([Db EXCEPT !.cart = merge_duplicate_cart_items(cart, u)],
                              u, cart_items, ContactInfo(u, has_username),
                              delivery_method, delivery_fee)
    IN  /\ cart_items # << >>
        /\ \A o \in after.orders : o.id <= MaxOrders
        /\ \A i \in after.order_items : i.id <= MaxItems
        /\ \A i \in after.order_items : i.quantity <= MaxItemQty
        /\ products' = after.products
        /\ cart' = after.cart
        /\ orders' = after.orders
        /\ order_items' = after.order_items
        /\ ret' = after.ret
        /\ reply' = IF had_existing_order
                    THEN (IF delivery_method = "delivery"
                          THEN "added_delivery" ELSE "added_pickup")
                    ELSE (IF delivery_method = "delivery"
                          THEN "created_delivery" ELSE "created_pickup")
        /\ UNCHANGED <<sess, settings, enabled, users, user_data, backup, models>>

\* the customer checking out again and again, with either button, while
\* the admin completes orders
NextHeader ==
    \/ \E p \in Catalogue, q \in 1..MaxQty : AddToCart(1, p, q)
    \/ \E h \in BOOLEAN, m \in DeliveryMethods : ConfirmOrderFrom(1, h, m)
    \/ \E o \in OrderIds : SetOrderStatus(o, "completed")

SpecHeader == Init /\ [][NextHeader]_vars

(* ---------------------------- empty orders ---------------------------- *)

\* a call of crud.create_order with the user's cart rows, or with an empty
\* list
CreateOrder(u, empty, delivery_method) ==
    LET cart_items == IF empty THEN << >> ELSE get_user_cart(cart, u)
        delivery_fee == IF delivery_method = "delivery" THEN DeliveryFee ELSE 0
        after == create_order([Db EXCEPT !.cart = merge_duplicate_cart_items(cart, u)],
                              u, cart_items, ContactInfo(u, TRUE), delivery_method,
                              delivery_fee)
    IN  /\ \A o \in after.orders : o.id <= MaxOrders
        /\ \A i \in after.order_items : i.id <= MaxItems
        /\ \A i \in after.order_items : i.quantity <= MaxItemQty
        /\ products' = after.products
        /\ cart' = after.cart
        /\ orders' = after.orders
        /\ order_items' = after.order_items
        /\ ret' = after.ret
        /\ UNCHANGED <<sess, gate>>

\* confirm_order, the whole handler: an empty cart is answered with an
\* alert and the handler returns; otherwise create_order is called
ConfirmOrderAnswered(u, delivery_method) ==
    LET cart_items == get_user_cart(cart, u)
        delivery_fee == IF delivery_method = "delivery" THEN DeliveryFee ELSE 0
        had_existing_order == processing_orders(orders, u) # << >>
        after == create_order([Db EXCEPT !.cart = merge_duplicate_cart_items(cart, u)],
                              u, cart_items, ContactInfo(u, TRUE), delivery_method,
                              delivery_fee)
    IN  IF cart_items = << >>
        THEN /\ reply' = "cart_empty"
             /\ ret' = NoneRet
             /\ UNCHANGED <<products, cart, orders, order_items, sess, settings,
                            enabled, users, user_data, backup, models>>
        ELSE /\ \A o \in after.orders : o.id <= MaxOrders
             /\ \A i \in after.order_items : i.id <= MaxItems
             /\ \A i \in after.order_items : i.quantity <= MaxItemQty
             /\ products' = after.products
             /\ cart' = after.cart
             /\ orders' = after.orders
             /\ order_items' = after.order_items
             /\ ret' = after.ret
             /\ reply' = IF had_existing_order
                         THEN (IF delivery_method = "delivery"
                               THEN "added_delivery" ELSE "added_pickup")
                         ELSE (IF delivery_method = "delivery"
                               THEN "created_delivery" ELSE "created_pickup")
             /\ UNCHANGED <<sess, settings, enabled, users, user_data, backup,
                            models>>

\* the customer checking out whatever the cart holds, create_order called
\* on its own, the admin completing orders; product 2 may be unavailable
NextEmpty ==
    \/ \E p \in Catalogue : AddToCart(1, p, 1)
    \/ \E e \in BOOLEAN, m \in DeliveryMethods : CreateOrder(1, e, m)
    \/ ConfirmOrderAnswered(1, "pickup")
    \/ \E o \in OrderIds : SetOrderStatus(o, "completed")

SpecEmpty == InitSkip /\ [][NextEmpty]_vars

(* ----------------------------- properties ------------------------------ *)

\* C1: add_to_cart calls run one after the other keep one cart row per
\* (user, product): the cart never holds two rows for a pair, and each call
\* add_to_cart(u, p, q) leaves exactly one row for (u, p) whose quantity is
\* the quantity the pair had before plus q, so that after a run of calls
\* the row holds the sum of their quantities.
C1_CartUnique ==
    /\ [](\A u \in Users, p \in Catalogue : Cardinality(RowsOf(cart, u, p)) <= 1)
    /\ [][\A u \in Users, p \in Catalogue, q \in 1..MaxQty :
            AddToCart(u, p, q) =>
                /\ Cardinality(RowsOf(cart', u, p)) = 1
                /\ SumQty(RowsOf(cart', u, p)) = SumQty(RowsOf(cart, u, p)) + q
                /\ \A v \in Users, w \in Catalogue :
                      <<v, w>> # <<u, p>> => RowsOf(cart', v, w) = RowsOf(cart, v, w)]_vars

\* add_to_cart has returned a row that is older than another row of the
\* user (a new row gets an id above every id), so the call added to a row
\* an earlier call had created
C1_Witness ==
    /\ ret.kind = "cart"
    /\ \E r \in cart : /\ r.id = ret.val
                       /\ r.quantity >= 2
                       /\ \E t \in cart : /\ t.user_id = r.user_id
                                          /\ t.product_id # r.product_id
                                          /\ t.id > r.id

RECURSIVE SumAdded(_)
SumAdded(S) ==
    IF S = {} THEN 0
    ELSE LET s == CHOOSE x \in S : TRUE IN sess[s].added + SumAdded(S \ {s})

\* C2: add_to_cart calls of two sessions that interleave statement by
\* statement never insert two rows for the same (user, product): when no
\* call is under way the cart of user 1 has at most one row for product 1,
\* and its quantity is the sum of the quantities the calls that returned
\* have added.
C2_ConcurrentUnique ==
    (\A s \in Sessions : sess[s].pc = "idle") =>
        /\ Cardinality(RowsOf(cart, 1, 1)) <= 1
        /\ SumQty(RowsOf(cart, 1, 1)) = SumAdded(Sessions)

ProcessingOf(ords, u) == {o \in ords : o.user_id = u /\ o.status = "processing"}

\* C3: every user has at most one order in status processing.
C3_SingleProcessing ==
    \A u \in Users : Cardinality(ProcessingOf(orders, u)) <= 1

\* C4: a create_order call for a user who has an order in status
\* processing creates no order row: the ids of the table and the number of
\* the user's orders stay, and the order returned is a processing order
\* the user had.
C4_AmendInsteadOfCreate ==
    [][\A u \in Customers, m \in DeliveryMethods :
          (ConfirmOrder(u, m) /\ ProcessingOf(orders, u) # {}) =>
              /\ {o.id : o \in orders'} = {o.id : o \in orders}
              /\ Cardinality({o \in orders' : o.user_id = u})
                   = Cardinality({o \in orders : o.user_id = u})
              /\ ret'.kind = "order"
              /\ ret'.val \in {o.id : o \in ProcessingOf(orders, u)}]_vars

\* create_order has returned order 1 while order 2 exists: order 1 was not
\* created by that call (a new id exceeds every id), it was amended
C4_Witness ==
    /\ ret = RowRet("order", 1)
    /\ \E o \in orders : o.id = 2
    /\ \E o \in orders : o.id = 1 /\ o.status = "processing"

\* C5: no order has two line items with the same product_id and
\* price_at_order.
C5_LineItemsUnique ==
    \A o \in orders : \A i, j \in ItemsOf(order_items, o.id) :
        (i.product_id = j.product_id /\ i.price_at_order = j.price_at_order) => i = j

\* C6: for every product, the stock plus the quantities of the product in
\* the line items of the existing orders is the stock the product started
\* with.
C6_StockConservation ==
    \A p \in Catalogue :
        products[p].stock_quantity
          + SumQty({i \in order_items : /\ i.product_id = p
                                        /\ OrderExists(orders, i.order_id)})
        = InitStock

\* C7: delete_order on an existing order adds to every product's stock the
\* quantities of the order's line items for it, removes the order row, leaves
\* the other orders alone and returns True; on an id no order has it returns
\* False and changes no stock, order or line item.
C7_DeleteOrder ==
    [][\A id \in OrderIds :
          DeleteOrder(id) =>
              IF OrderExists(orders, id)
              THEN /\ \A p \in Catalogue :
                        products'[p].stock_quantity =
                            products[p].stock_quantity
                              + SumQty({i \in ItemsOf(order_items, id) : i.product_id = p})
                   /\ \A p \in Catalogue : products'[p].price = products[p].price
                   /\ orders' = {o \in orders : o.id # id}
                   /\ ret' = BoolRet(TRUE)
              ELSE /\ UNCHANGED <<products, orders, order_items>>
                   /\ ret' = BoolRet(FALSE)]_vars

\* delete_order has returned True for an order with line items of both
\* products (the rows it read are still in the table)
C7_Witness ==
    /\ ret = BoolRet(TRUE)
    /\ \E i, j \in order_items :
          /\ i.order_id = j.order_id
          /\ i.product_id = 1 /\ j.product_id = 2
          /\ ~OrderExists(orders, i.order_id)
          /\ products[1].stock_quantity = InitStock
          /\ products[2].stock_quantity = InitStock

\* C8: every line item belongs to an order of the table: delete_order
\* leaves no line item of the order it removed.
C8_ItemsCascade ==
    \A i \in order_items : OrderExists(orders, i.order_id)

\* C9: no product's stock is ever negative: update_stock writes the
\* larger of 0 and stock + delta for any delta, and the admin's stock edit
\* and product creation change nothing when the number entered is negative.
C9_StockNonNegative ==
    /\ [](\A p \in DOMAIN products : products[p].stock_quantity >= 0)
    /\ [][\A p \in ProductIds, d \in StockDeltas :
            (UpdateStock(p, d) /\ HasProduct(products, p)) =>
                /\ products'[p].stock_quantity
                     = MaxOf({0, products[p].stock_quantity + d})
                /\ \A o \in DOMAIN products \ {p} : products'[o] = products[o]]_vars
    /\ [][\A p \in ProductIds, t \in StockTexts :
            (AdminEditStock(p, t) /\ t.numeric /\ t.val < 0) => products' = products]_vars
    /\ [][\A n \in Prices, t \in StockTexts :
            (AdminCreateProduct(n, t) /\ t.numeric /\ t.val < 0) => products' = products]_vars

\* the admin has created a third product and the stock of product 1 is zero
\* with nothing of it sold or in a cart
C9_Witness ==
    /\ HasProduct(products, 3)
    /\ products[1].stock_quantity = 0
    /\ order_items = {}
    /\ \A r \in cart : r.user_id # 1

\* C10: the price_at_order of a line item never changes: a row that keeps
\* its id, order and product over a step keeps its price; and an amend for
\* a product the order holds only at other prices leaves those rows as they
\* are and adds a row with the current price and the quantity bought.
C10_PriceSnapshot ==
    /\ [][\A i \in order_items, j \in order_items' :
             (i.id = j.id /\ i.order_id = j.order_id /\ i.product_id = j.product_id)
                 => j.price_at_order = i.price_at_order]_vars
    /\ [][\A u \in Customers, m \in DeliveryMethods, r \in cart :
             LET mine == ProcessingOf(orders, u)
                 held == IF mine = {} THEN {}
                         ELSE {i \in ItemsOf(order_items, MaxOf({o.id : o \in mine})) :
                                 i.product_id = r.product_id}
             IN  ( /\ ConfirmOrder(u, m)
                   /\ r.user_id = u
                   /\ products[r.product_id].stock_quantity >= r.quantity
                   /\ held # {}
                   /\ \A i \in held : i.price_at_order # products[r.product_id].price )
                 => /\ held \subseteq order_items'
                    /\ \E j \in order_items' \ order_items :
                          /\ j.order_id = MaxOf({o.id : o \in mine})
                          /\ j.product_id = r.product_id
                          /\ j.price_at_order = products[r.product_id].price
                          /\ j.quantity = r.quantity]_vars

\* an order holds the same product at two prices
C10_Witness ==
    \E o \in orders : \E i, j \in ItemsOf(order_items, o.id) :
        /\ i.product_id = j.product_id
        /\ i.price_at_order # j.price_at_order
        /\ i.id < j.id
        /\ j.price_at_order = products[j.product_id].price

\* the cart entries create_order is handed for the user, and those of them
\* that pass its test
EntriesOf(u) == UserCart(merge_duplicate_cart_items(cart, u), u)

AcceptedOf(u) == {r \in EntriesOf(u) : Accepted(products, r)}

RECURSIVE SumCost(_)
SumCost(rows) ==
    IF rows = {} THEN 0
    ELSE LET r == CHOOSE x \in rows : TRUE
         IN  products[r.product_id].price * r.quantity + SumCost(rows \ {r})

FeeOf(m) == IF m = "delivery" THEN DeliveryFee ELSE 0

\* C11: a create_order call for a user without a processing order adds one
\* order, in status processing, whose total is the sum of price * quantity
\* over the accepted cart entries plus the delivery fee; it inserts one line
\* item per accepted entry, with the entry's quantity and the product's
\* current price, and takes the entry's quantity off the product's stock.
C11_CreatePath ==
    [][\A u \in Customers, m \in DeliveryMethods :
          (ConfirmOrder(u, m) /\ ProcessingOf(orders, u) = {}) =>
              \E o \in orders' \ orders :
                  /\ orders' = orders \cup {o}
                  /\ o.user_id = u
                  /\ o.status = "processing"
                  /\ o.delivery_fee = FeeOf(m)
                  /\ o.total_price = SumCost(AcceptedOf(u)) + FeeOf(m)
                  /\ order_items \subseteq order_items'
                  /\ Cardinality(order_items' \ order_items) = Cardinality(AcceptedOf(u))
                  /\ \A r \in AcceptedOf(u) : \E i \in order_items' \ order_items :
                        /\ i.order_id = o.id
                        /\ i.product_id = r.product_id
                        /\ i.quantity = r.quantity
                        /\ i.price_at_order = products[r.product_id].price
                  /\ \A p \in Catalogue :
                        products'[p].stock_quantity =
                            products[p].stock_quantity
                              - SumQty({r \in AcceptedOf(u) : r.product_id = p})]_vars

\* the only order there is was created for delivery with a line item for
\* each product, and the stock of both products went down
C11_Witness ==
    /\ ret = RowRet("order", 1)
    /\ \E o \in orders :
          /\ orders = {o}
          /\ o.delivery_fee = DeliveryFee
          /\ o.total_price > DeliveryFee
          /\ \E i, j \in order_items :
                /\ order_items = {i, j}
                /\ i.product_id = 1 /\ j.product_id = 2
                /\ products[1].stock_quantity = InitStock - i.quantity
                /\ products[2].stock_quantity = InitStock - j.quantity

\* C12: a create_order call for a user with a processing order adds to the
\* total of that order (the newest one in processing) the sum of price *
\* quantity over the accepted cart entries and nothing else, leaves its
\* delivery fee and every other order as they are, and takes each accepted
\* entry's quantity off the product's stock.
C12_AmendPath ==
    [][\A u \in Customers, m \in DeliveryMethods :
          (ConfirmOrder(u, m) /\ ProcessingOf(orders, u) # {}) =>
              LET o == CHOOSE x \in ProcessingOf(orders, u) :
                           \A y \in ProcessingOf(orders, u) : y.id <= x.id
              IN  /\ orders' = (orders \ {o}) \cup
                        {[o EXCEPT !.total_price = @ + SumCost(AcceptedOf(u))]}
                  /\ \A p \in Catalogue :
                        products'[p].stock_quantity =
                            products[p].stock_quantity
                              - SumQty({r \in AcceptedOf(u) : r.product_id = p})]_vars

\* create_order has returned order 1, a delivery order, while order 2
\* exists (so order 1 was amended); its total is the fee, paid once, plus
\* two units of product 1, of which none is left
C12_Witness ==
    /\ ret = RowRet("order", 1)
    /\ \E o \in orders : o.id = 2 /\ o.status = "completed"
    /\ \E o \in orders :
          /\ o.id = 1 /\ o.status = "processing"
          /\ o.delivery_fee = DeliveryFee
          /\ o.total_price = DeliveryFee + 2 * products[1].price
          /\ \E i \in ItemsOf(order_items, 1) : i.product_id = 1 /\ i.quantity = 2
    /\ products[1].stock_quantity = 0
    /\ \A r \in cart : r.user_id # 1

\* the cart entries create_order passes over: product missing, not
\* available, or less of it in stock than the entry asks for
Refused(u) ==
    {r \in EntriesOf(u) :
        \/ r.product_id \notin DOMAIN products
        \/ ~products[r.product_id].is_available
        \/ products[r.product_id].stock_quantity < r.quantity}

\* C13: in both paths of create_order a refused cart entry (product
\* missing, unavailable or short of stock) gives no line item, leaves the
\* product and the order's rows for it untouched and adds nothing to the
\* total; the call still returns its order, and every other entry is
\* processed: a line item with its quantity and its stock taken.
C13_SilentSkip ==
    [][\A u \in Customers, m \in DeliveryMethods :
          ConfirmOrder(u, m) =>
              LET kept == EntriesOf(u) \ Refused(u)
                  old == IF ProcessingOf(orders, u) = {} THEN FeeOf(m)
                         ELSE (CHOOSE x \in ProcessingOf(orders, u) :
                                 \A y \in ProcessingOf(orders, u) : y.id <= x.id).total_price
              IN  /\ ret'.kind = "order"
                  /\ \E o \in orders' : /\ o.id = ret'.val
                                        /\ o.total_price = old + SumCost(kept)
                  /\ DOMAIN products' = DOMAIN products
                  /\ \A r \in Refused(u) :
                        /\ \A i \in order_items' \ order_items : i.product_id # r.product_id
                        /\ \A i \in order_items : i.product_id = r.product_id => i \in order_items'
                        /\ r.product_id \in DOMAIN products
                              => products'[r.product_id] = products[r.product_id]
                  /\ \A r \in kept :
                        /\ products'[r.product_id].stock_quantity
                             = products[r.product_id].stock_quantity - r.quantity
                        /\ \E i \in order_items' :
                              /\ i.order_id = ret'.val
                              /\ i.product_id = r.product_id
                              /\ i.quantity >= r.quantity]_vars

\* create_order has returned a delivery order without a line item, its
\* total the fee alone: the cart it was handed (confirm_order returns early
\* on an empty one) held refused entries only; no stock has moved
C13_Witness ==
    /\ ret.kind = "order"
    /\ \A r \in cart : r.user_id # 1
    /\ \E o \in orders :
          /\ o.id = ret.val
          /\ ItemsOf(order_items, o.id) = {}
          /\ o.delivery_fee = DeliveryFee
          /\ o.total_price = DeliveryFee
    /\ \A p \in DOMAIN products : products[p].stock_quantity = InitStock

\* C14: the total of every order is the sum of quantity * price_at_order
\* over its line items plus its delivery fee.
C14_TotalConsistent ==
    \A o \in orders :
        o.total_price = SumTotal(ItemsOf(order_items, o.id)) + o.delivery_fee

\* C15: the status of an order only moves from processing to completed:
\* an order enters the table in status processing, and an order that is
\* completed before a step is completed after it, if it is still there.
C15_OneWayLifecycle ==
    [][/\ \A n \in orders' :
             (\A o \in orders : o.id # n.id) => n.status = "processing"
       /\ \A o \in orders, n \in orders' :
             (o.id = n.id /\ o.status = "completed") => n.status = "completed"]_vars

\* C16: update_cart_item_quantity(cart_id, quantity) deletes the row with
\* that id when quantity <= 0 and sets its quantity otherwise; no other row
\* changes, and an id no row has changes nothing.
C16_UpdateCartItemQuantity ==
    [][\A id \in CartIds, q \in (-1)..MaxCartQty :
          UpdateCartItemQuantity(id, q) =>
              /\ \A r \in cart : r.id # id => r \in cart'
              /\ \A r \in cart' : r.id # id => r \in cart
              /\ (\A r \in cart : r.id # id) => cart' = cart
              /\ q <= 0 => \A r \in cart' : r.id # id
              /\ q > 0 => \A r \in cart : r.id = id =>
                    /\ [r EXCEPT !.quantity = q] \in cart'
                    /\ Cardinality({t \in cart' : t.id = id}) = 1]_vars

\* the row the cart started with has been deleted (add_to_cart deletes no
\* row of a cart without duplicates) and rows created after it are there
C16_Witness ==
    /\ \A r \in cart : r.id # 1
    /\ \E r, t \in cart : r.id = 2 /\ t.id = 3 /\ r.quantity = MaxCartQty

\* C17: get_user_cart, on any cart, returns the user's rows in ascending
\* id order, one per product: the row with the lowest id of each product
\* the user had, with the sum of the quantities of the product's rows; it
\* leaves the rows of other users alone, and on a cart without duplicates
\* (as it leaves it) it changes nothing.
C17_CartCoalescing ==
    [][\A u \in Users :
          GetUserCart(u) =>
              LET res == ret'.val
                  had(p) == RowsOf(cart, u, p)
              IN  /\ ret'.kind = "rows"
                  /\ \A k \in 1..(Len(res) - 1) : res[k].id < res[k + 1].id
                  /\ {res[k] : k \in 1..Len(res)} = UserCart(cart', u)
                  /\ \A p \in Catalogue :
                        IF had(p) = {} THEN RowsOf(cart', u, p) = {}
                        ELSE \E r \in cart' :
                                /\ RowsOf(cart', u, p) = {r}
                                /\ r.id = MinOf({t.id : t \in had(p)})
                                /\ r.quantity = SumQty(had(p))
                  /\ \A r \in cart : r.user_id # u => r \in cart'
                  /\ \A r \in cart' : r.user_id # u => r \in cart
                  /\ (\A p \in Catalogue : Cardinality(had(p)) <= 1) => cart' = cart
                  /\ merge_duplicate_cart_items(cart', u) = cart'
                  /\ get_user_cart(cart', u) = res]_vars

\* get_user_cart has returned a row with more than a single row of the
\* tables drawn can hold, the sum of several rows, beside another user's row
C17_Witness ==
    /\ ret.kind = "rows"
    /\ Len(ret.val) = 1
    /\ ret.val[1].quantity > MaxQty
    /\ \E r \in cart : r.user_id # ret.val[1].user_id

\* the line items of one order with one key
KeyRows(items, order_id, product_id, price) ==
    {i \in ItemsOf(items, order_id) : /\ i.product_id = product_id
                                      /\ i.price_at_order = price}

\* one line item per key the order had, carrying the sum of the key's rows
MergedFrom(before, after, order_id) ==
    \A p \in Catalogue, pr \in Prices :
        IF KeyRows(before, order_id, p, pr) = {}
        THEN KeyRows(after, order_id, p, pr) = {}
        ELSE \E i \in after :
                /\ KeyRows(after, order_id, p, pr) = {i}
                /\ i.quantity = SumQty(KeyRows(before, order_id, p, pr))

\* C18: merge_duplicate_order_items(order_id), on any line-item table,
\* leaves the order one line item per (product_id, price_at_order) key with
\* the sum of the quantities of the key's former rows, leaves the line
\* items of other orders and every stock value unchanged, and run again
\* changes nothing; cmd_fix_orders does the same to every order.
C18_MergeOrderItems ==
    [][/\ \A o \in OrderIds :
            MergeDuplicateOrderItems(o) =>
                /\ MergedFrom(order_items, order_items', o)
                /\ order_items' \ ItemsOf(order_items', o)
                       = order_items \ ItemsOf(order_items, o)
                /\ products' = products
                /\ merge_duplicate_order_items(order_items', o) = order_items'
       /\ CmdFixOrders =>
                /\ \A o \in OrderIds : MergedFrom(order_items, order_items', o)
                /\ products' = products
                /\ merge_all(order_items', SortById(orders')) = order_items']_vars

\* a line item that carries more than a drawn row can, the sum of several
\* rows, beside a line item of the other order
C18_Witness ==
    \E i, k \in order_items :
        /\ i.quantity > MaxItemQty
        /\ k.order_id # i.order_id

\* the rows of the keys other than key are as they were
OtherSettingsKept(key) ==
    \A k \in SettingKeys \ {key} : SettingRows(settings', k) = SettingRows(settings, k)

\* C19 as stated: get_maintenance_mode returns the last value passed to
\* set_maintenance_mode, whatever update_setting wrote in between.
C19_LastSetMaintenanceMode ==
    (ret.kind = "bool" /\ enabled # << >>) => ret = BoolRet(enabled[1])

\* C19: the settings table has at most one row per key; update_setting and
\* set_maintenance_mode write the one row of their key and no other;
\* get_setting returns the value of that row, None without one;
\* get_maintenance_mode returns whether the value last written to the key
\* 'maintenance_mode', by set_maintenance_mode or by update_setting, is
\* 'true' in lower case, and without a row writes 'false' and returns False.
C19_SettingsUpsert ==
    [][/\ \A k \in SettingKeys : Cardinality(SettingRows(settings', k)) <= 1
       /\ \A k \in SettingKeys, v \in SettingValues :
            UpdateSetting(k, v) =>
                /\ get_setting(settings', k) = StrRet(v)
                /\ OtherSettingsKept(k)
       /\ \A b \in BOOLEAN :
            SetMaintenanceMode(b) =>
                /\ get_setting(settings', "maintenance_mode")
                       = StrRet(IF b THEN "true" ELSE "false")
                /\ OtherSettingsKept("maintenance_mode")
       /\ \A k \in SettingKeys :
            GetSetting(k) =>
                /\ settings' = settings
                /\ IF SettingRows(settings, k) = {} THEN ret' = NoneRet
                   ELSE \E r \in settings : /\ r.setting_key = k
                                            /\ ret' = StrRet(r.setting_value)
       /\ GetMaintenanceMode =>
                /\ OtherSettingsKept("maintenance_mode")
                /\ IF SettingRows(settings, "maintenance_mode") = {}
                   THEN /\ ret' = BoolRet(FALSE)
                        /\ get_setting(settings', "maintenance_mode") = StrRet("false")
                   ELSE /\ settings' = settings
                        /\ \E r \in settings :
                              /\ r.setting_key = "maintenance_mode"
                              /\ ret' = BoolRet(lower(r.setting_value) = "true")]_vars

\* get_maintenance_mode has answered True although the last call of
\* set_maintenance_mode passed False: update_setting wrote the key since
C19_Witness ==
    /\ ret = BoolRet(TRUE)
    /\ enabled = <<FALSE>>
    /\ \E r \in settings : r.setting_key = "maintenance_mode" /\ r.setting_value = "True"
    /\ \E r \in settings : r.setting_key = "welcome_message"

\* something the actor did through the bot
Interacts(a) ==
    \/ UserCart_(a)
    \/ a \in Shoppers /\ UserAddToCart(a, 1, 1)
    \/ UserClearCart(a)
    \/ a \in Shoppers /\ UserConfirmOrder(a, "pickup")
    \/ \E t \in Actors, b \in BOOLEAN : AdminBanUser(a, t, b)
    \/ \E o \in OrderIds : AdminSetOrderStatus(a, o, "completed")
    \/ \E o \in OrderIds : AdminDeleteOrder(a, o)

\* C20: whatever a user whose is_banned flag is set does with the bot is
\* answered 'blocked' and changes no cart, order or stock state.
C20_BanEnforced ==
    [][\A a \in Actors :
          (users[a].is_banned /\ Interacts(a)) =>
              /\ reply' = "blocked"
              /\ UNCHANGED <<products, cart, orders, order_items>>]_vars

\* C21: the units in a customer's cart and in the customer's processing
\* order are together at most 10.
C21_Quota ==
    \A u \in Customers :
        \A o \in ProcessingOf(orders, u) :
            SumQty(UserCart(cart, u)) + SumQty(ItemsOf(order_items, o.id)) <= Quota

\* C22: in state awaiting_product_quantity a text that is no number, a
\* quantity <= 0, above the stored quota slots or above the stored stock
\* leaves the state, its product id and the cart as they were; the cart or
\* the state change only when the quantity is accepted, and then the
\* quantity is added to the stored product's cart row and the state cleared.
C22_RetryKeepsState ==
    [][\A u \in Customers, t \in QuantityTexts :
          (HandleMessage(u, t) /\ user_data[u].state = "awaiting_product_quantity") =>
              LET data == user_data[u]
                  refused == \/ ~t.numeric
                             \/ t.val <= 0
                             \/ t.val > data.available_slots
                             \/ t.val > data.product_stock
              IN  IF refused
                  THEN /\ user_data' = user_data
                       /\ cart' = cart
                  ELSE /\ user_data'[u].state = "none"
                       /\ CartQty(cart', u, data.product_id)
                              = CartQty(cart, u, data.product_id) + t.val
                       /\ \A r \in cart :
                              (r.user_id # u \/ r.product_id # data.product_id)
                                  => r \in cart']_vars

\* a quantity within the quota slots was refused for the stock, with the
\* conversation still waiting for a quantity
C22_Witness ==
    /\ reply = "over_stock"
    /\ user_data[1].state = "awaiting_product_quantity"
    /\ user_data[1].product_id = 2
    /\ cart # {}

\* C23: after delete_model(model_id) no product with that model_id remains
\* in the catalogue.
C23_ModelCascade ==
    [][\A m \in 1..3 :
          AdminDeleteModel(m) =>
              \A p \in DOMAIN products' : products'[p].model_id # m]_vars

\* some cart row, line item or order is gone
RowsDeleted ==
    \/ \E r \in cart : r \notin cart'
    \/ \E i \in order_items : i \notin order_items'
    \/ \E o \in orders : o \notin orders'

C26_CollapseKeepsQuantities ==
    [][\A u \in Customers, m \in DeliveryMethods :
          (ConfirmOrder(u, m) /\ ProcessingOf(orders, u) # {}) =>
              LET o == CHOOSE x \in ProcessingOf(orders, u) :
                           \A y \in ProcessingOf(orders, u) : y.id <= x.id
              IN  \A r \in AcceptedOf(u) :
                    LET former == KeyRows(order_items, o.id, r.product_id,
                                          products[r.product_id].price)
                    IN  Cardinality(former) >= 2 =>
                            \E i \in order_items' :
                                /\ KeyRows(order_items', o.id, r.product_id,
                                           products[r.product_id].price) = {i}
                                /\ i.quantity = SumQty(former) + r.quantity]_vars

\* the units of a product that are in stock or listed in a line item
AccountedFor(prods, items, p) ==
    prods[p].stock_quantity + SumQty({i \in items : i.product_id = p})

\* C25: no operation that removes an order or a line item (delete_order,
\* the collapse in the amend path, the merge of duplicates, the reset)
\* leaves stock unaccounted for: for every product, the units in stock plus
\* the units in line items never go down.
C25_StockRestoredOnRemoval ==
    [][\A p \in DOMAIN products :
          AccountedFor(products', order_items', p)
              >= AccountedFor(products, order_items, p)]_vars

\* units of product p in the order_items_list of executions on the create
\* path, taken from stock and not yet inserted (the last entry of a list
\* whose execution stands before update_stock is not yet taken)
RECURSIVE PendingQty(_, _)
PendingQty(list, p) ==
    IF list = << >> THEN 0
    ELSE (IF Head(list).product_id = p THEN Head(list).quantity ELSE 0)
         + PendingQty(Tail(list), p)

RECURSIVE PendingAll(_, _)
PendingAll(S, p) ==
    IF S = {} THEN 0
    ELSE LET s == CHOOSE x \in S : TRUE
             list == sess[s].order_items_list
             taken == IF sess[s].pc = "update_stock"
                      THEN SubSeq(list, 1, Len(list) - 1) ELSE list
         IN  PendingQty(taken, p) + PendingAll(S \ {s}, p)

Recorded(p) == SumQty({i \in order_items : i.product_id = p}) + PendingAll(Sessions, p)

Taken(p) == InitStock - products[p].stock_quantity

\* C27: create_order is not atomic.  Stock never goes below zero, and as
\* long as no two executions were in progress together the units taken
\* from stock are exactly the units recorded in line items (or waiting in
\* an order_items_list) and a user has at most one processing order.  With
\* two executions interleaved both can fail (C27_Witness): more units
\* recorded than taken from stock, and two processing orders of one user.
C27_CreateOrderNotAtomic ==
    /\ \A p \in DOMAIN products : products[p].stock_quantity >= 0
    /\ (\A s \in Sessions : ~sess[s].raced) =>
          /\ \A p \in DOMAIN products : Taken(p) = Recorded(p)
          /\ \A u \in Users : Cardinality(ProcessingOf(orders, u)) <= 1

\* both executions are over: product 1 has more units in line items than
\* were taken from its stock, and user 1 has two processing orders
C27_Witness ==
    /\ \A s \in Sessions : sess[s].pc = "idle" /\ sess[s].raced
    /\ Taken(1) < Recorded(1)
    /\ Cardinality(ProcessingOf(orders, 1)) = 2

\* C28: when create_order returns, on the create path and on the amend
\* path, the cart of the calling user has no row left, refused entries
\* included, and the rows of every other user are the ones they were.
C28_CartEmptied ==
    [][\A u \in Customers, m \in DeliveryMethods :
          ConfirmOrder(u, m) =>
              /\ ret'.kind = "order"
              /\ UserCart(cart', u) = {}
              /\ cart' \ UserCart(cart', u) = cart \ UserCart(cart, u)]_vars

\* product 2 has been deleted and create_order has returned an order
\* without a line item: the entry in the cart was refused; the cart of
\* user 1 is empty all the same, and the row of user 2 is where it was
C28_Witness ==
    /\ 2 \notin DOMAIN products
    /\ ret.kind = "order"
    /\ ItemsOf(order_items, ret.val) = {}
    /\ cart = {[id |-> 1, user_id |-> 2, product_id |-> 1, quantity |-> 1]}

\* the processing order create_order amends for user u
NewestProcessing(u) ==
    CHOOSE x \in ProcessingOf(orders, u) : \A y \in ProcessingOf(orders, u) : y.id <= x.id

\* C29: on the amend path create_order returns the existing order, adds no
\* order, and leaves the order's delivery_method, delivery_fee,
\* contact_info, status and user as they were, whatever contact_info,
\* delivery_method and delivery_fee it was called with.
C29_AmendKeepsHeader ==
    [][\A u \in Customers, h \in BOOLEAN, m \in DeliveryMethods :
          (ConfirmOrderFrom(u, h, m) /\ ProcessingOf(orders, u) # {}) =>
              /\ ret' = RowRet("order", NewestProcessing(u).id)
              /\ {o.id : o \in orders'} = {o.id : o \in orders}
              /\ \E n \in orders' :
                    /\ n.id = NewestProcessing(u).id
                    /\ n.delivery_method = NewestProcessing(u).delivery_method
                    /\ n.delivery_fee = NewestProcessing(u).delivery_fee
                    /\ n.contact_info = NewestProcessing(u).contact_info
                    /\ n.status = NewestProcessing(u).status
                    /\ n.user_id = NewestProcessing(u).user_id]_vars

\* a checkout with the delivery button was answered as added to an
\* existing order, and the order returned is a pickup order without a fee
C29_Witness ==
    /\ reply = "added_delivery"
    /\ ret.kind = "order"
    /\ \E o \in orders :
          /\ o.id = ret.val
          /\ o.status = "processing"
          /\ o.delivery_method = "pickup"
          /\ o.delivery_fee = 0
          /\ o.total_price = SumTotal(ItemsOf(order_items, o.id))
          /\ Cardinality(ItemsOf(order_items, o.id)) = 2

====
